---- MODULE Spec2Model ----
(***************************************************************************)
(* Model of the hierarchical document pipeline of theoraculo:              *)
(*   - the recursive, paginated crawler  (src/oraculo/scraper.py)          *)
(*   - the retrying batch download       (src/oraculo/scraper.py)          *)
(*   - the format dispatcher, the image extractor, the PDF extractor, the  *)
(*     image pre-processing and the parser of the context tags             *)
(*                                        (src/oraculo/ocr.py)             *)
(*   - the single download baixar_arquivo and the one-folder listings      *)
(*     listar_pastas / listar_arquivos   (src/oraculo/scraper.py)          *)
(*   - the similarity search             (src/oraculo/embeddings.py)       *)
(*   - the application: its status checks, main, and its own crawler,      *)
(*     image extractor and pre-processing (src/streamlit_app.py)           *)
(*                                                                         *)
(* Python strings are modelled as sequences of string tokens; the token    *)
(* "/" is the path separator, "\n\n" the blank line, "]" the bracket that  *)
(* closes a tag, and so on.  A folder or file name is one token, unless it *)
(* holds a "]", which is then a token of its own.                          *)
(***************************************************************************)
EXTENDS Integers, Sequences, FiniteSets, TLC

VARIABLES
    \* ---- crawler (listar_todos_os_arquivos) ----
    cTree,      \* the remote folder tree
    cPageSize,  \* how many children the server puts on one listing page
    cLimite,    \* the argument limite (0 models None: 0 is falsy in Python)
    cFiltro,    \* the argument filtrar_extensoes (<<>> models None)
    cOut,       \* what the call returned and which requests it issued
    cPc,        \* "idle" before the call, "done" after it
    cFalha,     \* the listing request that the server fails, if any
    \* ---- the application (src/streamlit_app.py) ----
    aAmb,       \* the environment of the run: engine, credentials, libraries
    aPc,        \* how far the script has run
    aUI,        \* the messages shown to the user, in order
    \* ---- batch download (baixar_arquivos) ----
    dArquivos,  \* the argument arquivos
    dMax,       \* the argument max_tentativas
    dRede,      \* per file of arquivos: how many downloads fail before one succeeds
    dFila,      \* arquivos_para_baixar
    dI,         \* index of the outer for loop (1-based)
    dTent,      \* index of the retry loop (0-based, as in the code)
    dHist,      \* per file of dFila: outcomes of its calls of baixar_arquivo
    dEsperas,   \* per file of dFila: number of time.sleep(2) performed
    dBaixados,  \* arquivos_baixados
    dPc,        \* "start", "loop", "done"
    \* ---- extraction (extrair_texto_de_arquivo / _de_pdf / _de_imagem) ----
    eIn,        \* the input file and the environment of the call
    eOut,       \* the returned string and the trace of calls
    ePc,        \* "idle", "done"
    \* ---- single download (baixar_arquivo) ----
    bImpl,      \* "scraper" (src/oraculo/scraper.py) or "app" (src/streamlit_app.py)
    bDisco,     \* pasta_destino: local file name -> the remote file stored there
    bFeitos,    \* the remote files downloaded so far
    bUlt,       \* the arguments and the network outcome of the last call
    bRet,       \* what the last call returned
    \* ---- one call of listar_pastas / listar_arquivos / find_most_similar ----
    fIn,        \* the arguments of the call
    fOut,       \* what it returned
    fPc         \* "idle", "done"

avars == <<aAmb, aPc, aUI>>
cvars == <<cTree, cPageSize, cLimite, cFiltro, cOut, cPc, cFalha>>
dvars == <<dArquivos, dMax, dRede, dFila, dI, dTent, dHist, dEsperas, dBaixados, dPc>>
evars == <<eIn, eOut, ePc>>
bvars == <<bImpl, bDisco, bFeitos, bUlt, bRet>>
fvars == <<fIn, fOut, fPc>>
vars  == <<avars, cvars, dvars, evars, bvars, fvars>>

\* the value of a component's variables while another component is exercised
CrawlParado ==
    /\ cTree = [parent |-> <<>>, folder |-> <<>>]
    /\ cPageSize = 1 /\ cLimite = 0 /\ cFiltro = <<>>
    /\ cOut = [arquivos |-> <<>>, reqs |-> <<>>, prog |-> <<>>, avisos |-> <<>>]
    /\ cPc = "off"
    /\ cFalha = [pasta |-> -1, status |-> 200]

AppParado == aAmb = <<>> /\ aPc = "off" /\ aUI = <<>>

DownloadParado ==
    /\ dArquivos = <<>> /\ dMax = 0 /\ dRede = <<>> /\ dFila = <<>> /\ dI = 0 /\ dTent = 0
    /\ dHist = <<>> /\ dEsperas = <<>> /\ dBaixados = <<>> /\ dPc = "off"

ExtracaoParada ==
    /\ eIn = <<>> /\ eOut = [op |-> "", texto |-> <<>>, chamadas |-> <<>>]
    /\ ePc = "off"

BaixarParado ==
    /\ bImpl = "off" /\ bDisco = {} /\ bFeitos = {} /\ bUlt = <<>> /\ bRet = <<>>

FuncaoParada == fIn = <<>> /\ fOut = <<>> /\ fPc = "off"

----------------------------------------------------------------------------
(* Bounds *)
MaxNodes    == 4    \* items (files and folders) in the remote tree
MaxPageSize == 2    \* largest page size the server uses
MaxLimite   == 3    \* largest cap given to the crawler
MaxArquivos == 2    \* files handed to one batch download
MaxPaginas  == 2    \* pages of a PDF document
MaxNivel    == 1    \* largest nivel_hierarquico handed to an extractor
MaxTentativas == 3  \* largest max_tentativas; a download failing this often
                    \* fails for the whole call

----------------------------------------------------------------------------
(* Python string helpers on token sequences *)

SEP == "/"

\* str.replace("//", "/"): one left-to-right pass over non-overlapping matches
RECURSIVE ReplaceBarras(_)
ReplaceBarras(s) ==
    IF Len(s) < 2 THEN s
    ELSE IF s[1] = SEP /\ s[2] = SEP
         THEN <<SEP>> \o ReplaceBarras(SubSeq(s, 3, Len(s)))
         ELSE <<s[1]>> \o ReplaceBarras(Tail(s))

\* the segments of a path: its tokens between separators
SplitPath(s) == SelectSeq(s, LAMBDA tk : tk # SEP)

----------------------------------------------------------------------------
(* The remote drive as the crawler sees it *)

\* Item i of the tree is named Nomes[i].  The crawler asks the server for
\* "$orderby": "name asc", and the table is in ascending name order, so the
\* children of a folder are listed in ascending item number.
Nomes == <<"A", "B", "comunicado.png", "file2.pdf", "guia.txt", "h.pdf", "i.png">>

\* the suffix that nome.endswith(ext) looks at
ExtDe(nome) ==
    CASE nome = "comunicado.png" -> ".png"
      [] nome = "file2.pdf" -> ".pdf"
      [] nome = "guia.txt"  -> ".txt"
      [] nome = "h.pdf"     -> ".pdf"
      [] nome = "i.png"     -> ".png"
      [] nome = "foto.png"  -> ".png"
      [] nome = "doc.pdf"   -> ".pdf"
      [] nome = "guia.pdf"  -> ".pdf"
      [] nome = "nota.txt"  -> ".txt"
      [] nome = "dados.zip" -> ".zip"
      [] OTHER              -> ""

RAIZ == 0            \* the drive root
NaoEncontrada == -1  \* the server answers 404

\* parent[i] is the folder holding item i (RAIZ or an earlier item that is a
\* folder); folder[i] says whether item i carries the "folder" facet.
TreesOfSize(n) ==
    { t \in [parent : [1..n -> 0..n], folder : [1..n -> BOOLEAN]] :
        \A i \in 1..n : /\ t.parent[i] < i
                        /\ t.parent[i] # RAIZ => t.folder[t.parent[i]] }

Trees == UNION { TreesOfSize(n) : n \in 0..MaxNodes }

Itens(t) == DOMAIN t.parent

\* response.json().get("value", []) of the whole folder, in name order
Filhos(t, pasta) ==
    SelectSeq([i \in 1..Len(t.parent) |-> i], LAMBDA i : t.parent[i] = pasta)

\* the server cuts the children of a folder into pages of ps items; every
\* page but the last carries an @odata.nextLink
NumPaginas(itens, ps) ==
    IF Len(itens) = 0 THEN 1 ELSE (Len(itens) + ps - 1) \div ps

Pagina(itens, ps, k) ==
    SubSeq(itens, (k - 1) * ps + 1,
           IF k * ps < Len(itens) THEN k * ps ELSE Len(itens))

\* the folder that .../root:/{caminho_pasta}:/children addresses
RECURSIVE Walk(_, _, _)
Walk(t, pasta, segs) ==
    IF segs = <<>> THEN pasta
    ELSE LET hit == { i \in Itens(t) : /\ t.parent[i] = pasta
                                       /\ t.folder[i]
                                       /\ Nomes[i] = Head(segs) }
         IN  IF hit = {} THEN NaoEncontrada
             ELSE Walk(t, CHOOSE i \in hit : TRUE, Tail(segs))

Resolve(t, caminho) ==
    IF caminho = <<SEP>> THEN RAIZ ELSE Walk(t, RAIZ, SplitPath(caminho))

----------------------------------------------------------------------------
(* listar_todos_os_arquivos, src/oraculo/scraper.py *)

\* lines 177-185: the path the rest of the call works with.  (Line 185 of
\* the file has lost its indentation; it is read as the last line of the
\* else branch, where the path it formats is built.)
NormalizaCaminho(caminho_pasta) ==
    IF caminho_pasta = <<SEP>> THEN caminho_pasta
    ELSE LET c == ReplaceBarras(caminho_pasta)
         IN  IF c # <<>> /\ Head(c) = SEP THEN Tail(c) ELSE c

\* line 224: nova_pasta = f"{caminho_pasta}/{item['name']}".replace("//", "/")
NovaPasta(caminho_pasta, nome) ==
    ReplaceBarras(caminho_pasta \o <<SEP, nome>>)

\* line 242: the level handed to the recursive call
NivelDaSubpasta_Mesmo(nivel_atual) == nivel_atual
NivelDaSubpasta(nivel_atual) == nivel_atual + 1

\* "if limite and len(arquivos) >= limite"
LimiteAtingido(limite, arquivos) == limite # 0 /\ Len(arquivos) >= limite

\* lines 273-274: any(nome_arquivo.endswith(ext.lower()) for ext in filtrar_extensoes)
PassaFiltro(filtro, nome) ==
    filtro = <<>> \/ \E k \in 1..Len(filtro) : ExtDe(nome) = filtro[k]

\* the keywords of the category rules that occur in nome.lower()
PalavrasDe(nome) ==
    CASE nome = "comunicado.png" -> {"comunicado"}
      [] nome = "guia.txt"       -> {"guia"}
      [] OTHER                   -> {}

SemCategoria == ""

\* lines 251-261: the rules on the name of a folder, in the order of the elifs
CategoriaDaPasta(nome_pasta) ==
    LET p == PalavrasDe(nome_pasta) IN
    IF "guia" \in p /\ "rápido" \in p THEN "Guia Rápido"
    ELSE IF "comunicado" \in p THEN "Comunicado"
    ELSE IF "linha" \in p /\ "frente" \in p THEN "Linha de Frente"
    ELSE IF "assistência" \in p \/ "assistencia" \in p THEN "Assistência"
    ELSE IF "seguro" \in p \/ "segurador" \in p THEN "Seguro"
    ELSE SemCategoria

\* lines 280-283 and 298-301: the rules on the name of a file
CategoriaDoNome(nome_arquivo) ==
    LET p == PalavrasDe(nome_arquivo) IN
    IF "guia" \in p /\ "pratico" \in p THEN "Guia Prático"
    ELSE IF "comunicado" \in p THEN "Comunicado"
    ELSE SemCategoria

\* lines 247-261: every file that came back from the sub-folder takes the
\* category of the folder's name, when the name has one.  (The key _pasta_pai
\* written by line 248 is not carried by the model.)
CarimbaCategoria(sub_arquivos, nome_pasta) ==
    [k \in 1..Len(sub_arquivos) |->
        IF CategoriaDaPasta(nome_pasta) # SemCategoria
        THEN [sub_arquivos[k] EXCEPT !.categoria = CategoriaDaPasta(nome_pasta)]
        ELSE sub_arquivos[k]]

\* lines 326-327, 331-332 (and streamlit_app.py 363-364): an item appended
\* with its level and path only
DescritorSemCategoria(i, nivel_atual, caminho_pasta) ==
    [id |-> i, nome |-> Nomes[i], nivel |-> nivel_atual,
     caminho |-> caminho_pasta, categoria |-> SemCategoria]

\* lines 276-283, 294-301: the item as the loop over the first page appends it
Descritor(i, nivel_atual, caminho_pasta) ==
    [DescritorSemCategoria(i, nivel_atual, caminho_pasta)
        EXCEPT !.categoria = CategoriaDoNome(Nomes[i])]

Requisicao(caminho_pasta, k) == [pasta |-> caminho_pasta, pagina |-> k]

\* progress values are fractions [n, d] with d > 0
Fr(n, d) == [n |-> n, d |-> d]
FrSub(x, y) == Fr(x.n * y.d - y.n * x.d, x.d * y.d)
FrSoma(x, y) == Fr(x.n * y.d + y.n * x.d, x.d * y.d)
FrMul(x, y) == Fr(x.n * y.n, x.d * y.d)
FrMenor(x, y) == x.n * y.d < y.n * x.d
FrMin(x, y) == IF FrMenor(y, x) THEN y ELSE x

\* progress_start + f * (progress_end - progress_start)
Ponto(progress_start, progress_end, f) ==
    FrSoma(progress_start, FrMul(f, FrSub(progress_end, progress_start)))

\* the defaults of the top-level call: progress_start=0.0, progress_end=1.0
ProgressStart == Fr(0, 1)
ProgressEnd == Fr(1, 1)

\* lines 202, 215, 231, 343: progress_bar and exibir_progresso and
\* nivel_atual == 0 (the caller leaves exibir_progresso at its default True)
Reporta(a, nivel_atual) == a.barra /\ nivel_atual = 0

\* one call of progress_bar.progress: the value and the invocation making it
Progresso(valor, nivel_atual) == [valor |-> valor, nivel |-> nivel_atual]

\* the request that fails, if any: the first listing request of one folder,
\* answered with the given HTTP status
SemFalha == [pasta |-> NaoEncontrada, status |-> 200]
Falhas(t) ==
    {SemFalha} \cup
    { [pasta |-> f, status |-> st] :
        f \in {RAIZ} \cup {i \in Itens(t) : t.folder[i]}, st \in {404, 500} }

\* line 352: st.warning(f"Erro ao listar arquivos em {caminho_pasta}: ...")
Aviso(caminho_pasta, status) == [pasta |-> caminho_pasta, status |-> status]

\* lines 350-352: errors are shown by the top-level invocation only
AvisaFalha_TodoNivel(nivel_atual) == TRUE
AvisaFalha(nivel_atual) == nivel_atual = 0

RECURSIVE ListarTodos(_, _, _, _, _)
RECURSIVE ProcessaItens(_, _, _, _, _, _, _)
RECURSIVE ProcessaContinuacao(_, _, _, _, _, _)
RECURSIVE Continuacao(_, _, _, _, _, _)

\* lines 209-309: the loop over the items of the first page; lim = [ini, fim]
\* holds progress_start and progress_end of this invocation
ProcessaItens(a, caminho, nivel, lim, pag, j, acc) ==
    IF j > Len(pag) THEN acc
    ELSE IF LimiteAtingido(a.limite, acc.arquivos) THEN acc
    ELSE LET item == pag[j]
             de   == Ponto(lim.ini, lim.fim, Fr(j - 1, Len(pag)))
             ate  == Ponto(lim.ini, lim.fim, Fr(j, Len(pag)))
             accp == IF Reporta(a, nivel)
                     THEN [acc EXCEPT !.prog = Append(@, Progresso(FrMin(de, lim.fim), nivel))]
                     ELSE acc
         IN
         IF a.t.folder[item]
         THEN LET sub  == ListarTodos(a, NovaPasta(caminho, Nomes[item]),
                                      NivelDaSubpasta(nivel),
                                      IF Reporta(a, nivel) THEN de ELSE lim.ini,
                                      IF Reporta(a, nivel) THEN ate ELSE lim.fim)
                  acc1 == [arquivos |-> accp.arquivos
                                        \o CarimbaCategoria(sub.arquivos, Nomes[item]),
                           reqs     |-> accp.reqs \o sub.reqs,
                           prog     |-> accp.prog \o sub.prog,
                           avisos   |-> accp.avisos \o sub.avisos]
              IN  IF LimiteAtingido(a.limite, acc1.arquivos) THEN acc1
                  ELSE ProcessaItens(a, caminho, nivel, lim, pag, j + 1, acc1)
         ELSE IF PassaFiltro(a.filtro, Nomes[item])
              THEN ProcessaItens(a, caminho, nivel, lim, pag, j + 1,
                       [accp EXCEPT !.arquivos =
                            Append(@, Descritor(item, nivel, caminho))])
              ELSE ProcessaItens(a, caminho, nivel, lim, pag, j + 1, accp)

\* lines 318-337: the loop over the items of one continuation page
ProcessaContinuacao(a, caminho, nivel, pag, j, acc) ==
    IF j > Len(pag) THEN acc
    ELSE LET item == pag[j]
             acc1 == IF ~a.t.folder[item] /\ PassaFiltro(a.filtro, Nomes[item])
                     THEN [acc EXCEPT !.arquivos =
                               Append(@, DescritorSemCategoria(item, nivel, caminho))]
                     ELSE acc
         IN  IF LimiteAtingido(a.limite, acc1.arquivos) THEN acc1
             ELSE ProcessaContinuacao(a, caminho, nivel, pag, j + 1, acc1)

\* lines 311-340: while next_link and (not limite or len(arquivos) < limite)
Continuacao(a, caminho, nivel, itens, k, acc) ==
    IF k <= NumPaginas(itens, a.ps) /\ ~LimiteAtingido(a.limite, acc.arquivos)
    THEN Continuacao(a, caminho, nivel, itens, k + 1,
             ProcessaContinuacao(a, caminho, nivel, Pagina(itens, a.ps, k), 1,
                 [acc EXCEPT !.reqs = Append(@, Requisicao(caminho, k))]))
    ELSE acc

\* lines 144-354: one invocation; a = [t, ps, limite, filtro, falha, barra] is
\* what every level of the recursion shares.  The result holds the returned
\* list (arquivos), the requests issued (reqs), the values given to
\* progress_bar.progress (prog) and the calls of st.warning (avisos).
ListarTodos(a, caminho_pasta, nivel_atual, progress_start, progress_end) ==
    LET caminho == NormalizaCaminho(caminho_pasta)
        pasta   == Resolve(a.t, caminho)
        vazio   == [arquivos |-> <<>>, reqs |-> <<Requisicao(caminho, 1)>>,
                    prog |-> <<>>, avisos |-> <<>>]
        lim     == [ini |-> progress_start, fim |-> progress_end]
    IN  IF pasta = NaoEncontrada \/ pasta = a.falha.pasta
        THEN \* raise_for_status() raises, line 350 catches, [] is returned
             IF AvisaFalha(nivel_atual)
             THEN [vazio EXCEPT !.avisos =
                      <<Aviso(caminho, IF pasta = NaoEncontrada THEN 404
                                       ELSE a.falha.status)>>]
             ELSE vazio
        ELSE LET itens == Filhos(a.t, pasta)
                 acc0  == IF Reporta(a, nivel_atual)
                          THEN [vazio EXCEPT !.prog =
                                   <<Progresso(Ponto(lim.ini, lim.fim, Fr(1, 10)),
                                               nivel_atual)>>]
                          ELSE vazio
                 p1    == ProcessaItens(a, caminho, nivel_atual, lim,
                                        Pagina(itens, a.ps, 1), 1, acc0)
                 p2    == Continuacao(a, caminho, nivel_atual, itens, 2, p1)
             IN  IF Reporta(a, nivel_atual)
                 THEN [p2 EXCEPT !.prog = Append(@, Progresso(lim.fim, nivel_atual))]
                 ELSE p2

Filtros == { <<>>, <<".pdf">> }

InitCrawl ==
    /\ cTree \in Trees
    /\ cPageSize \in 1..MaxPageSize
    /\ cLimite \in 0..MaxLimite
    /\ cFiltro \in Filtros
    /\ cFalha \in Falhas(cTree)
    /\ cOut = [arquivos |-> <<>>, reqs |-> <<>>, prog |-> <<>>, avisos |-> <<>>]
    /\ cPc = "idle"

\* the caller runs listar_todos_os_arquivos(token, drive_id, "/", progress_bar,
\* limite=..., filtrar_extensoes=...)
Crawl ==
    /\ cPc = "idle"
    /\ cOut' = ListarTodos([t |-> cTree, ps |-> cPageSize, limite |-> cLimite,
                            filtro |-> cFiltro, falha |-> cFalha, barra |-> TRUE],
                           <<SEP>>, 0, ProgressStart, ProgressEnd)
    /\ cPc' = "done"
    /\ UNCHANGED <<cTree, cPageSize, cLimite, cFiltro, cFalha>>


CrawlInit == InitCrawl /\ AppParado /\ DownloadParado /\ ExtracaoParada /\ BaixarParado /\ FuncaoParada

NextCrawl == Crawl /\ UNCHANGED <<avars, dvars, evars, bvars, fvars>>

SpecCrawl == CrawlInit /\ [][NextCrawl]_vars

----------------------------------------------------------------------------
(* What the tree says about an item, independently of the crawl *)

RECURSIVE Ancestrais(_, _)
\* the names of the folders above item i, outermost first
Ancestrais(t, i) ==
    IF t.parent[i] = RAIZ THEN <<>>
    ELSE Append(Ancestrais(t, t.parent[i]), Nomes[t.parent[i]])

RECURSIVE JuntaComBarra(_)
JuntaComBarra(nomes) ==
    IF Len(nomes) <= 1 THEN nomes
    ELSE <<Head(nomes), SEP>> \o JuntaComBarra(Tail(nomes))

\* the folder path of an item as the claim words it: the ancestors' names
\* joined by the separator, "/" alone for the root
CaminhoEsperado(nomes) == IF nomes = <<>> THEN <<SEP>> ELSE JuntaComBarra(nomes)

FolhasDe(t) == { i \in Itens(t) : ~t.folder[i] }

IdsDe(arquivos) == { arquivos[k].id : k \in 1..Len(arquivos) }

\* the tree /A/comunicado.png, /A/B/file2.pdf: items 1..4 are A, B, comunicado.png
\* and file2.pdf (see Nomes)
ArvoreAB == [parent |-> <<RAIZ, 1, 1, 2>>,
             folder |-> <<TRUE, TRUE, FALSE, FALSE>>]

\* C1: with no limit, no extension filter and no failing request, the crawl
\* from the root returns exactly the non-folder items of the tree, each once,
\* whatever the page size
C1_ExactlyTheLeaves ==
    (cPc = "done" /\ cLimite = 0 /\ cFiltro = <<>> /\ cFalha = SemFalha) =>
        /\ IdsDe(cOut.arquivos) = FolhasDe(cTree)
        /\ Len(cOut.arquivos) = Cardinality(FolhasDe(cTree))

\* C2: every returned file carries its true depth and the separator-joined
\* names of its ancestor folders, so depth = number of path segments
C2_DepthAndPath ==
    cPc = "done" =>
        \A k \in 1..Len(cOut.arquivos) :
            LET f == cOut.arquivos[k] IN
            /\ f.nivel = Len(Ancestrais(cTree, f.id))
            /\ SplitPath(f.caminho) = Ancestrais(cTree, f.id)
            /\ f.nivel = Len(SplitPath(f.caminho))
            /\ f.caminho = CaminhoEsperado(Ancestrais(cTree, f.id))

\* a file two folders deep was returned, one of them from a continuation page
C2_Witness ==
    /\ cPc = "done"
    /\ \E k \in 1..Len(cOut.arquivos) : cOut.arquivos[k].nivel = 2
    /\ \E k \in 1..Len(cOut.arquivos) : cOut.arquivos[k].nivel = 1
    /\ \E k \in 1..Len(cOut.reqs) : cOut.reqs[k].pagina = 2

\* C3: with a cap k > 0 the returned list never holds more than k files
C3_NeverMoreThanLimite ==
    (cPc = "done" /\ cLimite > 0) => Len(cOut.arquivos) <= cLimite

\* C4: crawling /A/comunicado.png, /A/B/file2.pdf with the cap 1 yields exactly
\* comunicado.png at depth 1 and folder B is never listed
C4_ScenarioCapOne ==
    (cPc = "done" /\ cTree = ArvoreAB /\ cLimite = 1 /\ cFiltro = <<>>
        /\ cFalha = SemFalha) =>
        /\ cOut.arquivos = <<Descritor(3, 1, <<"A">>)>>
        /\ \A k \in 1..Len(cOut.reqs) : cOut.reqs[k].pasta # <<"A", SEP, "B">>

\* the categories of the folders above item i that have one, outermost first
RECURSIVE CategoriasAcima(_, _)
CategoriasAcima(t, i) ==
    IF t.parent[i] = RAIZ THEN <<>>
    ELSE CategoriasAcima(t, t.parent[i])
         \o (IF CategoriaDaPasta(Nomes[t.parent[i]]) # SemCategoria
             THEN <<CategoriaDaPasta(Nomes[t.parent[i]])>> ELSE <<>>)

\* C21: the category of every returned file is that of a matching folder
\* name when one of its ancestor folders matches a rule, else that of the
\* first matching file-name rule, else none; it depends on the ancestors'
\* names and the file's own name only, not on the listing page that
\* delivered the file
C21_CategoryByRules ==
    cPc = "done" =>
        \A k \in 1..Len(cOut.arquivos) :
            LET f     == cOut.arquivos[k]
                acima == CategoriasAcima(cTree, f.id)
            IN  IF acima # <<>>
                THEN \E n \in 1..Len(acima) : f.categoria = acima[n]
                ELSE f.categoria = CategoriaDoNome(f.nome)

\* C14: the values one crawl gives to the progress bar never decrease and lie
\* in [0, 1], and all of them come from the top-level invocation
C14_ProgressMonotone ==
    cPc = "done" =>
        /\ \A k \in 1..Len(cOut.prog) :
               /\ ~FrMenor(cOut.prog[k].valor, Fr(0, 1))
               /\ ~FrMenor(Fr(1, 1), cOut.prog[k].valor)
               /\ cOut.prog[k].nivel = 0
        /\ \A k \in 1..(Len(cOut.prog) - 1) :
               ~FrMenor(cOut.prog[k + 1].valor, cOut.prog[k].valor)

\* the items below folder f, f being RAIZ or an item
RECURSIVE Abaixo(_, _, _)
Abaixo(t, f, i) ==
    IF i = RAIZ THEN FALSE
    ELSE t.parent[i] = f \/ Abaixo(t, f, t.parent[i])

\* the path of folder f as the crawl requests it
CaminhoDaPasta(t, f) ==
    IF f = RAIZ THEN <<SEP>>
    ELSE CaminhoEsperado(Append(Ancestrais(t, f), Nomes[f]))

FoiRequisitada(f) ==
    \E k \in 1..Len(cOut.reqs) : cOut.reqs[k] = Requisicao(CaminhoDaPasta(cTree, f), 1)

\* C15: when the listing request of a folder fails, the crawl still returns,
\* the failure is reported to the diagnostics sink, and the result holds every
\* file of every folder that is neither the failed folder nor below it
C15_FailureIsolated ==
    (cPc = "done" /\ cLimite = 0 /\ cFiltro = <<>> /\ cFalha # SemFalha
        /\ FoiRequisitada(cFalha.pasta)) =>
        /\ \E k \in 1..Len(cOut.avisos) :
               cOut.avisos[k].pasta = CaminhoDaPasta(cTree, cFalha.pasta)
        /\ \A i \in FolhasDe(cTree) :
               (cTree.parent[i] # cFalha.pasta /\ ~Abaixo(cTree, cFalha.pasta, i))
                   => i \in IdsDe(cOut.arquivos)

\* C22: a listing request answered 404 leaves no warning in the diagnostics
\* sink, and a listing request that fails in any other way is reported there,
\* at whatever depth the folder lies
C22_Only404Silent ==
    (cPc = "done" /\ cFalha # SemFalha /\ FoiRequisitada(cFalha.pasta)) =>
        IF cFalha.status = 404
        THEN cOut.avisos = <<>>
        ELSE \E k \in 1..Len(cOut.avisos) :
                 cOut.avisos[k] = Aviso(CaminhoDaPasta(cTree, cFalha.pasta), cFalha.status)

\* C17: in the returned list, the files lying directly in a folder all come
\* before any file of its sub-folders
C17_FilesBeforeSubfolders ==
    cPc = "done" =>
        \A j, k \in 1..Len(cOut.arquivos) :
            LET pasta == cTree.parent[cOut.arquivos[k].id]
                fundo == cOut.arquivos[j].id
            IN  (cTree.parent[fundo] # pasta /\ Abaixo(cTree, pasta, fundo))
                    => k < j

----------------------------------------------------------------------------
(* baixar_arquivos and baixar_arquivo, src/oraculo/scraper.py *)

\* lines 436-440: the default extensoes_validas
ExtensoesValidas ==
    { ".pdf", ".docx", ".pptx", ".xlsx", ".png", ".jpg", ".jpeg", ".gif",
      ".bmp", ".txt", ".csv", ".html" }

\* an input file: the suffix of its "name" and whether it carries an
\* "@microsoft.graph.downloadUrl"
ArquivosDeEntrada == [ext : {".pdf", ".zip"}, link : BOOLEAN]

SeqsAte(S, n) == UNION { [1..m -> S] : m \in 0..n }

\* lines 449-454: the positions of arquivos that pass the extension filter
FiltraPorExtensao(arquivos) ==
    SelectSeq([k \in 1..Len(arquivos) |-> k],
              LAMBDA k : arquivos[k].ext \in ExtensoesValidas)

\* lines 502-509
TipoDe(ext) ==
    IF ext \in {".png", ".jpg", ".jpeg", ".gif", ".bmp"} THEN "imagem"
    ELSE IF ext = ".pdf" THEN "pdf"
    ELSE IF ext \in {".txt", ".csv"} THEN "texto"
    ELSE "outro"

\* lines 395-409 seen from the caller: the n-th call for a file succeeds once
\* the network has failed `falhas` times for it; a failure is either the
\* (None, None, None) of line 409 or an exception that is not a
\* RequestException (open() or write() failing, line 402)
ResultadosPossiveis(falhas, n) ==
    IF n > falhas THEN {"ok"} ELSE {"none", "excecao"}

\* lines 513-515 and 518-519: sleep unless this was the last attempt
EsperaApos_Sempre(tentativa, max_tentativas) == TRUE
EsperaApos(tentativa, max_tentativas) == tentativa < max_tentativas - 1

\* line 516: except Exception catches whatever baixar_arquivo raises, so no
\* outcome of an attempt leaves baixar_arquivos
EscapaDoLote_Excecao(r) == r = "excecao"
EscapaDoLote(r) == FALSE

\* line 512: a successful attempt leaves the retry loop
UltimaIteracao_SemBreak(ok, tentativa, max_tentativas) == tentativa + 1 >= max_tentativas
UltimaIteracao(ok, tentativa, max_tentativas) == ok \/ tentativa + 1 >= max_tentativas

InitDownload ==
    /\ dArquivos \in SeqsAte(ArquivosDeEntrada, MaxArquivos)
    /\ dMax \in 1..MaxTentativas
    /\ dRede \in [1..Len(dArquivos) -> 0..MaxTentativas]
    /\ dFila = <<>> /\ dI = 0 /\ dTent = 0
    /\ dHist = <<>> /\ dEsperas = <<>> /\ dBaixados = <<>>
    /\ dPc = "start"

\* lines 434-466: filter, early return when nothing is left
DFiltra ==
    /\ dPc = "start"
    /\ dFila' = FiltraPorExtensao(dArquivos)
    /\ dHist' = [k \in 1..Len(dFila') |-> <<>>]
    /\ dEsperas' = [k \in 1..Len(dFila') |-> 0]
    /\ dI' = 1 /\ dTent' = 0
    /\ dPc' = IF Len(dFila') = 0 THEN "done" ELSE "loop"
    /\ UNCHANGED <<dArquivos, dMax, dRede, dBaixados>>

\* lines 476, 485: a file without link, or range(0), gets no attempt
DSemTentativa ==
    /\ dPc = "loop" /\ dI <= Len(dFila)
    /\ ~dArquivos[dFila[dI]].link \/ dMax <= 0
    /\ dI' = dI + 1 /\ dTent' = 0
    /\ UNCHANGED <<dArquivos, dMax, dRede, dFila, dHist, dEsperas, dBaixados, dPc>>

\* lines 485-519: one iteration of the retry loop
DTentativa ==
    /\ dPc = "loop" /\ dI <= Len(dFila)
    /\ dArquivos[dFila[dI]].link /\ dTent < dMax
    /\ \E r \in ResultadosPossiveis(dRede[dFila[dI]], Len(dHist[dI]) + 1) :
        /\ dHist' = [dHist EXCEPT ![dI] = Append(@, r)]
        /\ dBaixados' =
              IF r = "ok"
              THEN Append(dBaixados,
                       [arquivo |-> dFila[dI],
                        tipo |-> TipoDe(dArquivos[dFila[dI]].ext)])
              ELSE dBaixados
        /\ dEsperas' =
              IF r # "ok" /\ EsperaApos(dTent, dMax)
              THEN [dEsperas EXCEPT ![dI] = @ + 1] ELSE dEsperas
        /\ IF UltimaIteracao(r = "ok", dTent, dMax)
           THEN dI' = dI + 1 /\ dTent' = 0
           ELSE dI' = dI /\ dTent' = dTent + 1
        /\ dPc' = IF EscapaDoLote(r) THEN "raised" ELSE dPc
    /\ UNCHANGED <<dArquivos, dMax, dRede, dFila>>

\* lines 521-529: return arquivos_baixados
DRetorna ==
    /\ dPc = "loop" /\ dI > Len(dFila)
    /\ dPc' = "done"
    /\ UNCHANGED <<dArquivos, dMax, dRede, dFila, dI, dTent, dHist, dEsperas,
                   dBaixados>>

DownloadInit == InitDownload /\ AppParado /\ CrawlParado /\ ExtracaoParada /\ BaixarParado /\ FuncaoParada

NextDownload ==
    \/ DFiltra /\ UNCHANGED <<avars, cvars, evars, bvars, fvars>>
    \/ DSemTentativa /\ UNCHANGED <<avars, cvars, evars, bvars, fvars>>
    \/ DTentativa /\ UNCHANGED <<avars, cvars, evars, bvars, fvars>>
    \/ DRetorna /\ UNCHANGED <<avars, cvars, evars, bvars, fvars>>

SpecDownload == DownloadInit /\ [][NextDownload]_vars

\* the batch is one sequential loop: whenever a step is possible the
\* interpreter takes it
SpecDownloadFair == DownloadInit /\ [][NextDownload]_vars /\ WF_vars(NextDownload)

\* file k of the queue has left the retry loop
Terminado(k) == dPc = "done" \/ (dPc = "loop" /\ k < dI)

Baixado(k) == \E b \in 1..Len(dBaixados) : dBaixados[b].arquivo = dFila[k]

C5_Contagem ==
    \A k \in 1..Len(dFila) :
        (Terminado(k) /\ dArquivos[dFila[k]].link) =>
            LET falhas == dRede[dFila[k]] IN
            /\ (falhas = 2 /\ dMax >= 3) =>
                   Len(dHist[k]) = 3 /\ Baixado(k)
            /\ falhas >= dMax =>
                   /\ Len(dHist[k]) = dMax
                   /\ ~Baixado(k)
                   /\ dEsperas[k] = dMax - 1

\* C5: a download that fails twice and then succeeds is recorded after
\* exactly 3 calls of baixar_arquivo; one that always fails is called exactly
\* max_tentativas times, waits only between attempts, is absent from the
\* result, and the batch terminates
C5_RetryBounded == [](C5_Contagem /\ dTent < dMax + 1) /\ <>(dPc = "done")

\* one file was recorded on its third call and another was given up
C5_Witness ==
    /\ dPc = "done" /\ dMax = 3
    /\ \E k \in 1..Len(dFila) :
          dHist[k] \in {"none", "excecao"} \X {"none", "excecao"} \X {"ok"}
    /\ \E k \in 1..Len(dFila) :
          Len(dHist[k]) = 3 /\ dHist[k][3] # "ok" /\ ~Baixado(k)

\* the call of baixar_arquivos is over, by return or by an exception
Encerrado == dPc \in {"done", "raised"}

\* file k of the queue had an attempt that failed
Falhou(k) == \E n \in 1..Len(dHist[k]) : dHist[k][n] # "ok"

\* C18: a failure on one file, be it every attempt failing or an exception,
\* never aborts the batch: every later file with a supported extension and
\* a download link has been attempted at least once when the call is over
C18_BatchGoesOn ==
    Encerrado =>
        \A j, k \in 1..Len(dFila) :
            (j < k /\ Falhou(j) /\ dArquivos[dFila[k]].link) => Len(dHist[k]) >= 1

\* the first file was given up after an exception, the second was downloaded
C18_Witness ==
    /\ dPc = "done" /\ Len(dFila) >= 2
    /\ ~Baixado(1) /\ Len(dHist[1]) = dMax
    /\ \E n \in 1..Len(dHist[1]) : dHist[1][n] = "excecao"
    /\ Baixado(2)

\* the positions in arquivos of the files some call of baixar_arquivo succeeded for
ComSucesso ==
    { dFila[k] : k \in { n \in 1..Len(dFila) :
                            \E m \in 1..Len(dHist[n]) : dHist[n][m] = "ok" } }

\* C26: the returned list is an order-preserving subsequence of the input:
\* its entries follow the input order with no input file entered twice, and
\* the files entered are exactly those with a supported extension and a
\* download link for which some attempt succeeded
C26_OrderedSubsequence ==
    dPc = "done" =>
        /\ \A a, b \in 1..Len(dBaixados) :
               a < b => dBaixados[a].arquivo < dBaixados[b].arquivo
        /\ { dBaixados[b].arquivo : b \in 1..Len(dBaixados) } = ComSucesso
        /\ \A i \in ComSucesso :
               dArquivos[i].ext \in ExtensoesValidas /\ dArquivos[i].link

\* two files were entered, one of them after a failed attempt
C26_Witness ==
    /\ dPc = "done" /\ Len(dBaixados) = 2
    /\ \E k \in 1..Len(dFila) : Falhou(k) /\ Baixado(k)

----------------------------------------------------------------------------
(* baixar_arquivo, src/oraculo/scraper.py 356-409 and src/streamlit_app.py
   386-407.  File and folder names are sequences of characters here, since
   the local name is built character by character. *)

MaxBaixados == 2    \* remote files one behaviour downloads

\* str.replace(c, '_') for every c of de
Troca(s, de) == [k \in 1..Len(s) |-> IF s[k] \in de THEN "_" ELSE s[k]]

\* str.strip('_')
RECURSIVE StripSublinhado(_)
StripSublinhado(s) ==
    IF s = <<>> THEN s
    ELSE IF Head(s) = "_" THEN StripSublinhado(Tail(s))
    ELSE IF s[Len(s)] = "_" THEN StripSublinhado(SubSeq(s, 1, Len(s) - 1))
    ELSE s

\* scraper.py 385-391 and streamlit_app.py 390-391: the name of the local file
NomeLocal(impl, caminho_pasta, nome_arquivo) ==
    IF impl = "scraper"
    THEN LET caminho_seguro == StripSublinhado(Troca(caminho_pasta, {"/"}))
             nome_seguro    == Troca(nome_arquivo, {":", "/"})
         IN  IF caminho_seguro # <<>>
             THEN caminho_seguro \o <<"_">> \o nome_seguro
             ELSE nome_seguro
    ELSE Troca(IF caminho_pasta # <<"/">>
               THEN Troca(caminho_pasta, {"/"}) \o <<"_">> \o nome_arquivo
               ELSE nome_arquivo,
               {":", "?", "*"})

\* the folder paths each crawler stamps on its files: scraper.py joins the
\* folder names with "/" and has "/" for the root, streamlit_app.py has a
\* leading "/" on every path
CaminhosStamped(impl) ==
    IF impl = "scraper"
    THEN { <<"/">>, <<"a">>, <<"a", "/", "b">>, <<"a", "_", "b">> }
    ELSE { <<"/">>, <<"/", "a">>, <<"/", "a", "/", "b">>, <<"/", "a", "_", "b">> }

NomesRemotos ==
    { <<"c">>, <<"b", "_", "c">>, <<"a", "_", "c">>, <<"a", ":", "c">> }

\* requests.get answers 200, answers an error status, or times out
Redes == {"ok", "http", "timeout"}

\* the remote file a download link stands for; its bytes are its own
Remoto(caminho_pasta, nome_arquivo) == [caminho |-> caminho_pasta, nome |-> nome_arquivo]

\* scraper.py 397-402, streamlit_app.py 396-400: open(caminho_local, "wb") is
\* reached only after the answer was checked
AbreArquivo_AntesDoGet(rede) == TRUE
AbreArquivo(rede) == rede = "ok"

\* open(caminho_local, "wb") followed by f.write(conteudo)
Grava(disco, local, conteudo) ==
    {e \in disco : e.local # local} \cup {[local |-> local, conteudo |-> conteudo]}

Truncado == <<>>

\* scraper.py 409, streamlit_app.py 403 and 407
Nenhum == <<"None", "None", "None">>

InitBaixar ==
    /\ bImpl \in {"scraper", "app"}
    /\ bDisco = {} /\ bFeitos = {} /\ bUlt = <<>> /\ bRet = <<>>

\* one call of baixar_arquivo
Baixar ==
    /\ Cardinality(bFeitos) < MaxBaixados
    /\ \E caminho_pasta \in CaminhosStamped(bImpl), nome_arquivo \in NomesRemotos,
          rede \in Redes :
        LET caminho_local == NomeLocal(bImpl, caminho_pasta, nome_arquivo)
            conteudo      == Remoto(caminho_pasta, nome_arquivo)
        IN  /\ bUlt' = [caminho |-> caminho_pasta, nome |-> nome_arquivo, rede |-> rede]
            /\ bDisco' = IF AbreArquivo(rede)
                         THEN Grava(bDisco, caminho_local,
                                    IF rede = "ok" THEN conteudo ELSE Truncado)
                         ELSE bDisco
            /\ bFeitos' = IF rede = "ok" THEN bFeitos \cup {conteudo} ELSE bFeitos
            /\ bRet' = IF rede = "ok" THEN <<caminho_local, conteudo, caminho_pasta>>
                       ELSE Nenhum
    /\ UNCHANGED bImpl

BaixarInit == InitBaixar /\ AppParado /\ CrawlParado /\ DownloadParado /\ ExtracaoParada /\ FuncaoParada

NextBaixar == Baixar /\ UNCHANGED <<avars, cvars, dvars, evars, fvars>>

SpecBaixar == BaixarInit /\ [][NextBaixar]_vars

\* C23: two remote files that differ in folder path or in name never get the
\* same local name, so every file downloaded is still in the local store
\* under its own name, with its own bytes
C23_LocalNameInjective ==
    /\ \A x, y \in bFeitos :
           x # y => NomeLocal(bImpl, x.caminho, x.nome) # NomeLocal(bImpl, y.caminho, y.nome)
    /\ \A x \in bFeitos :
           [local |-> NomeLocal(bImpl, x.caminho, x.nome), conteudo |-> x] \in bDisco

\* C25: a call of the baixar_arquivo of scraper.py whose request fails leaves
\* the local store as it was and returns (None, None, None)
C25_FailureLeavesStore ==
    [][(bImpl = "scraper" /\ bUlt'.rede # "ok") => (bDisco' = bDisco /\ bRet' = Nenhum)]_vars

\* the request failed for a file whose local name was already in the store
C25_Witness ==
    /\ bImpl = "scraper" /\ bUlt # <<>> /\ bUlt.rede = "timeout" /\ bRet = Nenhum
    /\ \E e \in bDisco : e.local = NomeLocal(bImpl, bUlt.caminho, bUlt.nome)

----------------------------------------------------------------------------
(* More Python string helpers on token sequences *)

Brancos == {" ", "\n", "\n\n", "\t"}

\* str.strip()
RECURSIVE LStrip(_)
LStrip(s) == IF s # <<>> /\ Head(s) \in Brancos THEN LStrip(Tail(s)) ELSE s

RECURSIVE RStrip(_)
RStrip(s) ==
    IF s # <<>> /\ s[Len(s)] \in Brancos
    THEN RStrip(SubSeq(s, 1, Len(s) - 1)) ELSE s

Strip(s) == RStrip(LStrip(s))

\* sep.join(partes), partes a sequence of strings
RECURSIVE Join(_, _)
Join(sep, partes) ==
    IF partes = <<>> THEN <<>>
    ELSE IF Len(partes) = 1 THEN partes[1]
    ELSE partes[1] \o sep \o Join(sep, Tail(partes))

\* f"{n}" for the small numbers the model prints
Digitos == <<"0", "1", "2", "3", "4", "5", "6", "7", "8", "9">>
NumStr(n) == Digitos[n + 1]

\* palavra in texto.lower()
Contem(texto, palavra) == \E k \in 1..Len(texto) : texto[k] = palavra

\* "guia" in nome_arquivo.lower(), "comunicado" in nome_arquivo.lower()
NomeContem(nome, palavra) ==
    \/ palavra = "guia" /\ nome \in {"guia.pdf", "guia.txt", "guia.png", "guia_pratico.png"}
    \/ palavra = "comunicado" /\ nome \in {"comunicado.pdf", "comunicado.png"}
    \/ palavra = "pratico" /\ nome \in {"guia_pratico.png"}

----------------------------------------------------------------------------
(* extrair_texto_de_imagem, src/oraculo/ocr.py *)

ImagemSemTexto == <<"[imagem sem texto legível]">>
PdfSemTexto    == <<"[PDF sem texto legível]">>

\* lines 187-192 (and 355-360, 466-471, 561-566): the hierarchy tags
TagsDeHierarquia(nivel_hierarquico, caminho_pasta) ==
    (IF nivel_hierarquico > 0
     THEN << <<"[Nível ", NumStr(nivel_hierarquico), "]">> >> ELSE <<>>)
    \o
    (IF caminho_pasta # <<>> /\ caminho_pasta # <<SEP>>
     THEN << <<"[Caminho: ">> \o caminho_pasta \o <<"]">> >> ELSE <<>>)

\* lines 194-206 (and 362-374, 473-485): the tags drawn from name and text
TagsDeConteudo(nome_arquivo, texto) ==
    (IF NomeContem(nome_arquivo, "guia") THEN << <<"[Tipo: ", "Guia", "]">> >>
     ELSE IF NomeContem(nome_arquivo, "comunicado") \/ Contem(texto, "comunicado")
          THEN << <<"[Tipo: ", "Comunicado", "]">> >>
          ELSE <<>>)
    \o
    (IF Contem(texto, "guia rápido") THEN << <<"[Menu: ", "Guia Rápido", "]">> >>
     ELSE IF Contem(texto, "assistências") \/ Contem(texto, "assistencias")
          THEN << <<"[Categoria: ", "Assistências", "]">> >>
     ELSE IF Contem(texto, "seguros") \/ Contem(texto, "seguradoras")
          THEN << <<"[Categoria: ", "Seguros", "]">> >>
          ELSE <<>>)

\* lines 209-210 (and 377-378, 488-489, 568-569)
Anota(contexto, texto) ==
    IF contexto # <<>> THEN Join(<<" ">>, contexto) \o <<"\n\n">> \o texto
    ELSE texto

\* lines 178-184: the lines describing the detected buttons
RECURSIVE LinhasDeBotoes(_, _)
LinhasDeBotoes(botoes, i) ==
    IF i > Len(botoes) THEN <<>>
    ELSE << <<"- Botão ", NumStr(i), ": '", botoes[i], "'">> >>
         \o LinhasDeBotoes(botoes, i + 1)

ElementosDeInterface(detectar_menus, botoes) ==
    IF detectar_menus /\ botoes # <<>>
    THEN << <<"\n\nElementos de interface detectados:">> >>
         \o LinhasDeBotoes(botoes, 1)
    ELSE <<>>

\* line 217: return texto if texto else "[imagem sem texto legível]"
ResultadoOuSentinela(texto) == IF texto # <<>> THEN texto ELSE ImagemSemTexto

ErroDeImagem == <<"[erro ao processar imagem: ", "e", "]">>

\* lines 122-221.  img = [tipo, existe, nome, valida, ocr, ocrFalha, botoes]:
\*   tipo     "str" (a path), "bytes", "pil" (an Image) or "outro"
\*   existe   os.path.exists(path)
\*   valida   Image.open succeeds
\*   ocr      what pytesseract.image_to_string returns
\*   ocrFalha pytesseract raises (engine missing)
\*   botoes   the texts detectar_botoes_e_menus finds
ExtrairTextoDeImagem(img, detectar_menus, nivel_hierarquico, caminho_pasta) ==
    IF img.tipo = "str" /\ ~img.existe
    THEN <<"[erro: arquivo não encontrado]">>
    ELSE IF img.tipo \notin {"str", "bytes", "pil"}
    THEN <<"[erro: formato de entrada inválido]">>
    ELSE IF img.tipo # "pil" /\ ~img.valida THEN ErroDeImagem
    ELSE IF img.ocrFalha THEN ErroDeImagem
    ELSE
      LET nome_arquivo == CASE img.tipo = "str"   -> img.nome
                            [] img.tipo = "bytes" -> "arquivo_binario.png"
                            [] OTHER              -> "imagem.png"
          texto     == Strip(img.ocr)
          elementos == ElementosDeInterface(detectar_menus, img.botoes)
          contexto  == TagsDeHierarquia(nivel_hierarquico, caminho_pasta)
                       \o TagsDeConteudo(nome_arquivo, texto)
          anotado   == Anota(contexto, texto)
          completo  == IF elementos # <<>>
                       THEN anotado \o <<"\n">> \o Join(<<"\n">>, elementos)
                       ELSE anotado
      IN  ResultadoOuSentinela(completo)

----------------------------------------------------------------------------
(* extrair_texto_de_pdf and its two backends, src/oraculo/ocr.py *)

\* one entry of the trace of calls an extraction makes
Ev(op, pagina) == [op |-> op, pagina |-> pagina]

\* the PIL image a page is rendered to, as extrair_texto_de_imagem sees it
ImagemDaPagina(pg) ==
    [tipo |-> "pil", existe |-> TRUE, nome |-> "imagem.png", valida |-> TRUE,
     ocr |-> pg.ocr, ocrFalha |-> pg.ocrFalha, botoes |-> pg.botoes]

\* line 331: if texto.strip()
TemTextoNativo_SemStrip(texto) == texto # <<>>
TemTextoNativo(texto) == Strip(texto) # <<>>

\* lines 348 and 455: the OCR result is kept unless it is empty or the sentinel
GuardaOcr(texto_ocr) == texto_ocr # <<>> /\ texto_ocr # ImagemSemTexto

\* lines 332, 349, 456: the page blocks
BlocoNativo(i, texto) == <<"--- Página ", NumStr(i), " ---\n">> \o texto
BlocoOcrFitz(i, texto) == <<"--- Página ", NumStr(i), " (OCR) ---\n">> \o texto
BlocoPdf2image(i, texto) == <<"--- Página ", NumStr(i), " ---\n">> \o texto

\* lines 352 and 463
Combina(textos) == IF textos # <<>> THEN Join(<<"\n\n">>, textos) ELSE PdfSemTexto

\* lines 354-380 and 465-491
AnotaPdf(nivel_hierarquico, caminho_pasta, nome_arquivo, texto_combinado) ==
    Anota(TagsDeHierarquia(nivel_hierarquico, caminho_pasta)
              \o TagsDeConteudo(nome_arquivo, texto_combinado),
          texto_combinado)

\* lines 324-349: the loop over the pages of the open document
RECURSIVE PaginasPyMuPDF(_, _, _, _, _)
PaginasPyMuPDF(paginas, i, nivel, caminho, acc) ==
    IF i > Len(paginas) THEN acc
    ELSE LET pg == paginas[i] IN
         IF TemTextoNativo(pg.texto)
         THEN PaginasPyMuPDF(paginas, i + 1, nivel, caminho,
                  [textos   |-> Append(acc.textos, BlocoNativo(i, pg.texto)),
                   chamadas |-> Append(acc.chamadas, Ev("get_text", i))])
         ELSE LET texto_ocr == ExtrairTextoDeImagem(ImagemDaPagina(pg), TRUE,
                                                    nivel, caminho)
              IN  PaginasPyMuPDF(paginas, i + 1, nivel, caminho,
                      [textos   |-> IF GuardaOcr(texto_ocr)
                                    THEN Append(acc.textos,
                                                BlocoOcrFitz(i, texto_ocr))
                                    ELSE acc.textos,
                       chamadas |-> acc.chamadas \o <<Ev("get_text", i),
                                                     Ev("get_pixmap", i),
                                                     Ev("ocr", i)>>])

\* lines 297-383.  doc = [paginas, abreFitz, converte]
ExtrairTextoDePdfComPyMuPDF(doc, nivel, caminho, nome_arquivo) ==
    IF ~doc.abreFitz
    THEN [texto    |-> <<"[erro ao processar PDF com PyMuPDF: ", "e", "]">>,
          chamadas |-> <<Ev("fitz.open", 0)>>]
    ELSE LET r == PaginasPyMuPDF(doc.paginas, 1, nivel, caminho,
                      [textos |-> <<>>, chamadas |-> <<Ev("fitz.open", 0)>>])
         IN  [texto    |-> AnotaPdf(nivel, caminho, nome_arquivo,
                                    Combina(r.textos)),
              chamadas |-> r.chamadas]

\* lines 439-460: the loop over the converted images
RECURSIVE PaginasPdf2image(_, _, _, _, _)
PaginasPdf2image(imagens, i, nivel, caminho, acc) ==
    IF i > Len(imagens) THEN acc
    ELSE LET texto_pagina == ExtrairTextoDeImagem(ImagemDaPagina(imagens[i]),
                                                  TRUE, nivel, caminho)
         IN  PaginasPdf2image(imagens, i + 1, nivel, caminho,
                 [textos   |-> IF GuardaOcr(texto_pagina)
                               THEN Append(acc.textos,
                                           BlocoPdf2image(i, texto_pagina))
                               ELSE acc.textos,
                  chamadas |-> Append(acc.chamadas, Ev("ocr", i))])

\* lines 419-428: first_page / last_page of the selection, all pages for None
Converte(doc, paginas) ==
    IF paginas = <<>> THEN doc.paginas
    ELSE SubSeq(doc.paginas, paginas[1], paginas[Len(paginas)])

\* lines 385-494
ExtrairTextoDePdfComPdf2image(doc, paginas, nivel, caminho, nome_arquivo) ==
    IF ~doc.converte
    THEN [texto    |-> <<"[erro com Poppler: ", "e", "]">>,
          chamadas |-> <<Ev("convert_from_path", 0)>>]
    ELSE LET r == PaginasPdf2image(Converte(doc, paginas), 1, nivel, caminho,
                      [textos   |-> <<>>,
                       chamadas |-> <<Ev("convert_from_path", 0)>>])
         IN  [texto    |-> AnotaPdf(nivel, caminho, nome_arquivo,
                                    Combina(r.textos)),
              chamadas |-> r.chamadas]

\* lines 223-295.  arq = [tipo, existe, nome, doc], amb = [temFitz, temPdf2image].
\* "import fitz" decides the backend: pdf2image is reached through the
\* ImportError of line 276 only, and a backend that fails on the document
\* returns its own error string (lines 383, 432-433), which line 270 returns.
ExtrairTextoDePdf(arq, amb, paginas, nivel, caminho) ==
    LET nome_arquivo == IF arq.tipo = "str" THEN arq.nome ELSE "arquivo.pdf" IN
    IF arq.tipo # "bytes" /\ ~arq.existe
    THEN [texto |-> <<"[erro: arquivo PDF não encontrado]">>, chamadas |-> <<>>]
    ELSE IF amb.temFitz
    THEN ExtrairTextoDePdfComPyMuPDF(arq.doc, nivel, caminho, nome_arquivo)
    ELSE IF amb.temPdf2image
    THEN ExtrairTextoDePdfComPdf2image(arq.doc, paginas, nivel, caminho,
                                       nome_arquivo)
    ELSE [texto |-> <<"[erro: nenhuma biblioteca de processamento de PDF está disponível]">>,
          chamadas |-> <<>>]

----------------------------------------------------------------------------
(* Calling extrair_texto_de_pdf *)

\* a page: its embedded text layer, what OCR reads on its rendering, whether
\* the OCR engine raises, and the buttons found on the rendering
Pg(texto, ocr, ocrFalha, botoes) ==
    [texto |-> texto, ocr |-> ocr, ocrFalha |-> ocrFalha, botoes |-> botoes]

PaginasPossiveis ==
    { Pg(<<"nativo", "\n">>, <<"nativo">>, FALSE, <<>>),  \* text layer
      Pg(<<"\n">>, <<"lido", "\n">>, FALSE, <<>>),        \* blank layer, scan
      Pg(<<>>, <<>>, FALSE, <<>>),                        \* nothing at all
      Pg(<<>>, <<"\n">>, FALSE, <<>>),                    \* OCR reads blanks
      Pg(<<>>, <<>>, FALSE, <<"ok">>),                    \* only a button
      Pg(<<>>, <<>>, TRUE, <<>>) }                        \* OCR engine raises

SemConteudo ==
    [classe |-> "lixo", ocr |-> <<>>, ocrFalha |-> FALSE, botoes |-> <<>>,
     valida |-> FALSE, texto |-> <<>>, paginas |-> <<>>,
     abreFitz |-> FALSE, converte |-> FALSE]

\* the payloads that are PDF documents; abreFitz: fitz.open succeeds,
\* converte: pdf2image.convert_from_path succeeds (Poppler present and able)
DocsPdf(n) ==
    { [SemConteudo EXCEPT !.classe = "pdf", !.paginas = ps,
                          !.abreFitz = a, !.converte = c] :
        ps \in SeqsAte(PaginasPossiveis, n), a \in BOOLEAN, c \in BOOLEAN }

Caminhos == { <<SEP>>, <<"A", SEP, "B">> }

Entradas(tipos, nomes, mimes, conteudos) ==
    { e \in [tipo : tipos, existe : BOOLEAN, nome : nomes, mime : mimes,
             conteudo : conteudos, temFitz : BOOLEAN, temPdf2image : BOOLEAN,
             nivel : 0..MaxNivel, caminho : Caminhos] :
        /\ e.tipo = "bytes" => e.existe
        /\ ~e.existe => e.mime = "" }

ArquivoDe(e) ==
    [tipo |-> e.tipo, existe |-> e.existe, nome |-> e.nome, doc |-> e.conteudo]

AmbienteDe(e) == [temFitz |-> e.temFitz, temPdf2image |-> e.temPdf2image]

InitPdf ==
    /\ eIn \in Entradas({"bytes", "str"}, {"doc.pdf", "guia.pdf"}, {""},
                        DocsPdf(MaxPaginas))
    /\ eOut = [op |-> "", texto |-> <<>>, chamadas |-> <<>>]
    /\ ePc = "idle"

\* lines 256-259: NamedTemporaryFile(suffix='.pdf', delete=False) for a bytes
\* input; a path input is read in place
TemporariosCriados(arq) == IF arq.tipo = "bytes" THEN {"temp_pdf_path"} ELSE {}

\* lines 264-295: no return path and no handler removes a file
TemporariosRemovidos(arq) == {}

ExtrairPdf ==
    /\ ePc = "idle"
    /\ LET r == ExtrairTextoDePdf(ArquivoDe(eIn), AmbienteDe(eIn), <<>>,
                                  eIn.nivel, eIn.caminho)
       IN  eOut' = [op |-> "pdf", texto |-> r.texto, chamadas |-> r.chamadas,
                    temporarios |-> TemporariosCriados(ArquivoDe(eIn))
                                    \ TemporariosRemovidos(ArquivoDe(eIn))]
    /\ ePc' = "done"
    /\ UNCHANGED eIn

PdfInit == InitPdf /\ AppParado /\ CrawlParado /\ DownloadParado /\ BaixarParado /\ FuncaoParada

NextPdf == ExtrairPdf /\ UNCHANGED <<avars, cvars, dvars, bvars, fvars>>

SpecPdf == PdfInit /\ [][NextPdf]_vars

\* which backend handled the document, if any did
Chamou(op, i) == \E k \in 1..Len(eOut.chamadas) : eOut.chamadas[k] = Ev(op, i)

PorPyMuPDF == Chamou("fitz.open", 0) /\ eIn.conteudo.abreFitz
PorPdf2image == Chamou("convert_from_path", 0) /\ eIn.conteudo.converte

\* s occurs in texto as a contiguous run of tokens
Ocorre(s, texto) ==
    \E k \in 0..(Len(texto) - Len(s)) : SubSeq(texto, k + 1, k + Len(s)) = s

\* the numbers of the page delimiters of texto, in the order they appear
NumerosDePagina(texto) ==
    LET pos == SelectSeq([k \in 1..Len(texto) |-> k],
                         LAMBDA k : texto[k] = "--- Página ")
    IN  [j \in 1..Len(pos) |->
            CHOOSE n \in 0..9 : NumStr(n) = texto[pos[j] + 1]]

Crescente(ns) == \A j \in 1..(Len(ns) - 1) : ns[j] < ns[j + 1]

\* the page selections a caller can pass for doc: None, or the list of the
\* pages a..b
Selecoes(doc) ==
    {<<>>} \cup { [k \in 1..(b - a + 1) |-> a + k - 1] :
                      a \in 1..Len(doc.paginas), b \in 1..Len(doc.paginas) }

InitPdf2image ==
    /\ \E d \in DocsPdf(MaxPaginas) :
          eIn \in [doc : {d}, paginas : Selecoes(d), nivel : 0..MaxNivel,
                    caminho : Caminhos]
    /\ eOut = [op |-> "", texto |-> <<>>, chamadas |-> <<>>]
    /\ ePc = "idle"

\* a direct call of extrair_texto_de_pdf_com_pdf2image
ExtrairPdf2image ==
    /\ ePc = "idle"
    /\ LET r == ExtrairTextoDePdfComPdf2image(eIn.doc, eIn.paginas, eIn.nivel,
                                              eIn.caminho, "arquivo.pdf")
       IN  eOut' = [op |-> "pdf2image", texto |-> r.texto, chamadas |-> r.chamadas]
    /\ ePc' = "done"
    /\ UNCHANGED eIn

Pdf2imageInit == InitPdf2image /\ AppParado /\ CrawlParado /\ DownloadParado /\ BaixarParado /\ FuncaoParada

NextPdf2image == ExtrairPdf2image /\ UNCHANGED <<avars, cvars, dvars, bvars, fvars>>

SpecPdf2image == Pdf2imageInit /\ [][NextPdf2image]_vars

\* C28: the number in every page delimiter is the number the page has in the
\* document: with a selection of the pages a..b the delimiters are numbers of
\* a..b, in increasing order
C28_DelimiterIsPageNumber ==
    (ePc = "done" /\ eOut.op = "pdf2image" /\ eIn.doc.converte) =>
        LET ns       == NumerosDePagina(eOut.texto)
            primeira == IF eIn.paginas = <<>> THEN 1 ELSE eIn.paginas[1]
            ultima   == IF eIn.paginas = <<>> THEN Len(eIn.doc.paginas)
                        ELSE eIn.paginas[Len(eIn.paginas)]
        IN  /\ Crescente(ns)
            /\ \A j \in 1..Len(ns) : ns[j] \in primeira..ultima

\* C27: when extrair_texto_de_pdf returns, on success or with an error
\* string, no temporary file it created for a bytes input is left behind
C27_TempFilesRemoved ==
    (ePc = "done" /\ eOut.op = "pdf") => eOut.temporarios = {}

PaginaComoClaim(i) ==
    LET pg == eIn.conteudo.paginas[i] IN
    IF Strip(pg.texto) # <<>>
    THEN /\ Ocorre(BlocoNativo(i, pg.texto), eOut.texto)
         /\ ~Chamou("ocr", i)
    ELSE Chamou("ocr", i)

C9_FallbackOnOpenFailure ==
    (ePc = "done" /\ eOut.op = "pdf" /\ eIn.existe
       /\ eIn.temFitz /\ eIn.temPdf2image /\ ~eIn.conteudo.abreFitz) =>
        Chamou("convert_from_path", 0)

NadaLegivel(pg) ==
    Strip(pg.texto) = <<>> /\ Strip(pg.ocr) = <<>> /\ pg.botoes = <<>>
    /\ ~pg.ocrFalha

\* C10: when no page yields any text (blank text layers, OCR reads nothing)
\* the document's result is the "[PDF sem texto legível]" sentinel after the
\* context tags, at every depth and folder path
C10_NoTextSentinel ==
    (ePc = "done" /\ (PorPyMuPDF \/ PorPdf2image)
       /\ \A i \in 1..Len(eIn.conteudo.paginas) :
              NadaLegivel(eIn.conteudo.paginas[i])) =>
        /\ eOut.texto # <<>>
        /\ eOut.texto[Len(eOut.texto)] = PdfSemTexto[1]
        /\ ~Contem(eOut.texto, "--- Página ")

----------------------------------------------------------------------------
(* extrair_texto_de_arquivo, src/oraculo/ocr.py *)

\* 'image' in mime_type, 'pdf' in mime_type, 'text' in mime_type
MimeContem(mime, familia) ==
    \/ familia = "image" /\ mime \in {"image/png", "image/jpeg"}
    \/ familia = "pdf"   /\ mime = "application/pdf"
    \/ familia = "text"  /\ mime \in {"text/plain", "text/html"}

\* line 535: if mime_type
UsaMime_Nunca(mime) == FALSE
UsaMime(mime) == mime # ""

ExtensoesDeImagem == {".png", ".jpg", ".jpeg", ".gif", ".bmp", ".tiff", ".webp"}
ExtensoesDeTexto  == {".txt", ".csv", ".md", ".html", ".xml"}

\* the payload as extrair_texto_de_imagem receives it
ImagemDoArquivo(e) ==
    [tipo |-> e.tipo, existe |-> e.existe, nome |-> e.nome,
     valida |-> e.conteudo.valida, ocr |-> e.conteudo.ocr,
     ocrFalha |-> e.conteudo.ocrFalha, botoes |-> e.conteudo.botoes]

RotaImagem(e) ==
    [texto    |-> ExtrairTextoDeImagem(ImagemDoArquivo(e), TRUE,
                                       e.nivel, e.caminho),
     chamadas |-> <<Ev("imagem", 0)>>]

RotaPdf(e) ==
    LET r == ExtrairTextoDePdf(ArquivoDe(e), AmbienteDe(e), <<>>,
                               e.nivel, e.caminho)
    IN  [texto |-> r.texto, chamadas |-> <<Ev("pdf", 0)>> \o r.chamadas]

\* lines 551-571 and 589-609: read or decode, then annotate
RotaTexto(e) ==
    IF e.tipo = "bytes" \/ (e.tipo = "str" /\ e.existe)
    THEN [texto    |-> Anota(TagsDeHierarquia(e.nivel, e.caminho),
                             e.conteudo.texto),
          chamadas |-> <<>>]
    ELSE [texto |-> <<"[formato de arquivo não suportado]">>, chamadas |-> <<>>]

\* line 634
NaoFoiPossivel(nome) ==
    <<"[não foi possível extrair texto do formato: ", nome, "]">>

\* lines 496-634.  In the branch for unknown extensions (lines 610-631) the
\* call of line 613 is a return whose callee catches every Exception itself
\* (line 219), so the except of line 619 and the PDF attempt of line 624 are
\* never reached.
ExtrairTextoDeArquivo(e) ==
    IF UsaMime(e.mime)
    THEN IF MimeContem(e.mime, "image") THEN RotaImagem(e)
         ELSE IF MimeContem(e.mime, "pdf") THEN RotaPdf(e)
         ELSE IF MimeContem(e.mime, "text") THEN RotaTexto(e)
         ELSE [texto |-> NaoFoiPossivel(e.nome), chamadas |-> <<>>]
    ELSE IF ExtDe(e.nome) \in ExtensoesDeImagem THEN RotaImagem(e)
         ELSE IF ExtDe(e.nome) = ".pdf" THEN RotaPdf(e)
         ELSE IF ExtDe(e.nome) \in ExtensoesDeTexto THEN RotaTexto(e)
         ELSE RotaImagem(e)

\* the payloads the dispatcher is exercised with
Conteudos ==
    { [SemConteudo EXCEPT !.classe = "imagem", !.valida = TRUE,
                          !.ocr = o, !.ocrFalha = f] :
        o \in { <<>>, <<"lido", "\n">> }, f \in BOOLEAN }
    \cup DocsPdf(1)
    \cup { [SemConteudo EXCEPT !.classe = "texto", !.texto = <<"linha", "\n">>] }
    \cup { SemConteudo }

Mimes == {"", "image/png", "application/pdf", "text/plain", "application/zip"}

\* the name the dispatcher works with; "" when bytes come without a name
NomesDeArquivo == {"foto.png", "doc.pdf", "nota.txt", "dados.zip", ""}

InitDispatch ==
    /\ eIn \in Entradas({"bytes", "str"}, NomesDeArquivo, Mimes, Conteudos)
    /\ eOut = [op |-> "", texto |-> <<>>, chamadas |-> <<>>]
    /\ ePc = "idle"

ExtrairArquivo ==
    /\ ePc = "idle"
    /\ LET r == ExtrairTextoDeArquivo(eIn)
       IN  eOut' = [op |-> "arquivo", texto |-> r.texto, chamadas |-> r.chamadas]
    /\ ePc' = "done"
    /\ UNCHANGED eIn

DispatchInit == InitDispatch /\ AppParado /\ CrawlParado /\ DownloadParado /\ BaixarParado /\ FuncaoParada

NextDispatch == ExtrairArquivo /\ UNCHANGED <<avars, cvars, dvars, bvars, fvars>>

SpecDispatch == DispatchInit /\ [][NextDispatch]_vars

PrimeiraChamada(op) == eOut.chamadas # <<>> /\ eOut.chamadas[1] = Ev(op, 0)

FormatoDesconhecido(e) ==
    /\ ~MimeContem(e.mime, "image") /\ ~MimeContem(e.mime, "pdf")
    /\ ~MimeContem(e.mime, "text")
    /\ ExtDe(e.nome) \notin ExtensoesDeImagem \cup ExtensoesDeTexto \cup {".pdf"}

\* the image extractor could not produce a text for this input
FalhaDeImagem(e) ==
    \/ e.tipo = "str" /\ ~e.existe
    \/ ~e.conteudo.valida
    \/ e.conteudo.ocrFalha

FalhaDePdf(e) ==
    \/ e.tipo = "str" /\ ~e.existe
    \/ e.temFitz /\ ~e.conteudo.abreFitz
    \/ ~e.temFitz /\ e.temPdf2image /\ ~e.conteudo.converte
    \/ ~e.temFitz /\ ~e.temPdf2image

\* C7: an unknown format is tried as an image first, then, if that fails, as
\* a PDF, and only if both fail the unsupported-format string is returned
C7_UnknownTriesImageThenPdf ==
    (ePc = "done" /\ eOut.op = "arquivo" /\ FormatoDesconhecido(eIn)) =>
        /\ PrimeiraChamada("imagem")
        /\ FalhaDeImagem(eIn) => Chamou("pdf", 0)
        /\ (FalhaDeImagem(eIn) /\ FalhaDePdf(eIn)) =>
              eOut.texto = NaoFoiPossivel(eIn.nome)
        /\ (eOut.texto = NaoFoiPossivel(eIn.nome)) =>
              (FalhaDeImagem(eIn) /\ FalhaDePdf(eIn))

----------------------------------------------------------------------------
(* extrair_texto_de_imagem, src/streamlit_app.py, and extrair_info_contexto *)

\* streamlit_app.py lines 434-480
ExtrairTextoDeImagemApp(img, nivel_hierarquico, caminho_pasta) ==
    IF img.tipo = "str" /\ ~img.existe THEN <<>>
    ELSE IF img.tipo \notin {"str", "bytes", "pil"} THEN <<>>
    ELSE IF img.tipo # "pil" /\ ~img.valida THEN ErroDeImagem
    ELSE IF img.ocrFalha THEN ErroDeImagem
    ELSE
      LET nome_arquivo == CASE img.tipo = "str"   -> img.nome
                            [] img.tipo = "bytes" -> "arquivo_binario.png"
                            [] OTHER              -> "imagem.png"
          \* line 461: the truth test is on the raw text, the strip comes after
          texto_limpo == IF img.ocr # <<>> THEN Strip(img.ocr) ELSE ImagemSemTexto
          prefixo ==
              <<"[Nível ", NumStr(nivel_hierarquico), "]">>
              \o (IF caminho_pasta # <<SEP>>
                  THEN <<" ", "[Caminho: ">> \o caminho_pasta \o <<"]">>
                  ELSE <<>>)
              \o (IF NomeContem(nome_arquivo, "guia")
                     /\ NomeContem(nome_arquivo, "pratico")
                  THEN <<" ", "[Menu: ", "Guia Prático", "]">>
                  ELSE IF Contem(texto_limpo, "comunicado")
                  THEN <<" ", "[Tipo: ", "Comunicado", "]">>
                  ELSE <<>>)
      IN  IF nivel_hierarquico > 0 \/ caminho_pasta # <<SEP>>
          THEN prefixo \o <<"\n">> \o texto_limpo
          ELSE texto_limpo

\* index of the first token of texto equal to tok, 0 when there is none
PosDe(texto, tok) ==
    IF \E k \in 1..Len(texto) : texto[k] = tok
    THEN CHOOSE k \in 1..Len(texto) :
            texto[k] = tok /\ \A j \in 1..(k - 1) : texto[j] # tok
    ELSE 0

\* the tokens of s before the first one that belongs to fim
RECURSIVE Ate(_, _)
Ate(s, fim) ==
    IF s = <<>> \/ Head(s) \in fim THEN <<>>
    ELSE <<Head(s)>> \o Ate(Tail(s), fim)

\* texto.split(abre)[1].split("]")[0]
ValorDaTag(texto, abre) ==
    Ate(SubSeq(texto, PosDe(texto, abre) + 1, Len(texto)), {abre, "]"})

FalhaDeInt == -1

\* int(nivel_str); FalhaDeInt stands for the ValueError
Inteiro(s) ==
    IF Len(s) = 1 /\ \E n \in 0..9 : Digitos[n + 1] = s[1]
    THEN CHOOSE n \in 0..9 : Digitos[n + 1] = s[1]
    ELSE FalhaDeInt

TermosImportantes ==
    <<"comunicado", "guia rápido", "assistência", "seguros", "atendimento",
      "procedimento", "telefone", "contato", "reembolso", "fluxo", "busca",
      "cliente">>

\* ocr.py lines 661-730
ExtrairInfoContexto(texto) ==
    LET tem(abre) == PosDe(texto, abre) # 0
        n == Inteiro(ValorDaTag(texto, "[Nível "))
    IN  [nivel     |-> IF tem("[Nível ") /\ n # FalhaDeInt THEN n ELSE 0,
         caminho   |-> IF tem("[Caminho: ")
                       THEN ValorDaTag(texto, "[Caminho: ") ELSE <<SEP>>,
         tipo      |-> IF tem("[Tipo: ")
                       THEN ValorDaTag(texto, "[Tipo: ") ELSE <<"Desconhecido">>,
         menu      |-> IF tem("[Menu: ")
                       THEN ValorDaTag(texto, "[Menu: ") ELSE <<>>,
         categoria |-> IF tem("[Categoria: ")
                       THEN ValorDaTag(texto, "[Categoria: ") ELSE <<>>,
         palavras_chave |->
             SelectSeq(TermosImportantes, LAMBDA termo : Contem(texto, termo))]

\* the images handed to the extractor
Imagens ==
    [tipo : {"str", "bytes", "pil", "outro"}, existe : BOOLEAN,
     nome : {"foto.png", "guia_pratico.png"}, valida : BOOLEAN,
     ocr : { <<>>, <<"\n">>, <<"lido", "\n">>, <<"comunicado">> },
     ocrFalha : BOOLEAN, botoes : { <<>>, <<"OK">> }]

\* folder paths as the crawler stamps them; the folder "Guia [2024]" is the
\* two tokens "Guia [2024" and "]"
CaminhosDePasta ==
    { <<SEP>>, <<"A">>, <<"Guia [2024", "]">>, <<"A", SEP, "B">> }

\* number of folders on the way from the root
Profundidade(caminho) ==
    IF caminho = <<SEP>> THEN 0
    ELSE 1 + Cardinality({k \in 1..Len(caminho) : caminho[k] = SEP})

InitImagem ==
    /\ eIn \in [impl : {"ocr", "app"}, img : Imagens, detectar_menus : BOOLEAN,
                nivel : 0..MaxNivel, caminho : CaminhosDePasta]
    /\ eOut = [op |-> "", texto |-> <<>>, chamadas |-> <<>>]
    /\ ePc = "idle"

ExtrairImagem ==
    /\ ePc = "idle"
    /\ eOut' = [op |-> "imagem",
                texto |-> IF eIn.impl = "ocr"
                          THEN ExtrairTextoDeImagem(eIn.img, eIn.detectar_menus,
                                                    eIn.nivel, eIn.caminho)
                          ELSE ExtrairTextoDeImagemApp(eIn.img, eIn.nivel,
                                                       eIn.caminho),
                chamadas |-> <<>>]
    /\ ePc' = "done"
    /\ UNCHANGED eIn

\* a consumer reads the provenance back from the stored text
InfoContexto ==
    /\ ePc = "done" /\ eOut.op = "imagem"
    /\ eOut' = [op |-> "info", texto |-> eOut.texto, chamadas |-> <<>>,
                info |-> ExtrairInfoContexto(eOut.texto)]
    /\ ePc' = "lido"
    /\ UNCHANGED eIn

ImagemInit == InitImagem /\ AppParado /\ CrawlParado /\ DownloadParado /\ BaixarParado /\ FuncaoParada

NextImagem ==
    \/ ExtrairImagem /\ UNCHANGED <<avars, cvars, dvars, bvars, fvars>>
    \/ InfoContexto /\ UNCHANGED <<avars, cvars, dvars, bvars, fvars>>

SpecImagem == ImagemInit /\ [][NextImagem]_vars

\* the engine ran on the image and raised nothing
OcrRodou(img) ==
    /\ img.tipo \in {"str", "bytes", "pil"}
    /\ img.tipo = "str" => img.existe
    /\ img.tipo # "pil" => img.valida
    /\ ~img.ocrFalha

\* C11: in both implementations of extrair_texto_de_imagem the result is
\* never the empty string, and when the engine recognizes no text (its output
\* is empty after trimming) the result carries the sentinel
\* "[imagem sem texto legível]" as its text, whatever the input kind, the
\* depth and the folder path.
C11_SentinelNeverEmpty ==
    (ePc = "done" /\ eOut.op = "imagem") =>
        /\ eOut.texto # <<>>
        /\ (OcrRodou(eIn.img) /\ Strip(eIn.img.ocr) = <<>>)
               => Ocorre(ImagemSemTexto, eOut.texto)

\* the tokens a bracket tag opens with
AberturasDeTag == {"[Nível ", "[Caminho: ", "[Tipo: ", "[Menu: ", "[Categoria: "}

\* C24: a tag is written only when its value is not the default one: the
\* level tag when the depth is above 0, the path tag when the path is not the
\* root, for every combination of the two; and when the result opens with a
\* tag, the tags are followed by a blank line before the text
C24_TagsOnlyNonDefault ==
    (ePc = "done" /\ eOut.op = "imagem" /\ OcrRodou(eIn.img)) =>
        /\ PosDe(eOut.texto, "[Nível ") # 0 <=> eIn.nivel > 0
        /\ PosDe(eOut.texto, "[Caminho: ") # 0 <=> eIn.caminho # <<SEP>>
        /\ (eOut.texto # <<>> /\ eOut.texto[1] \in AberturasDeTag) =>
               /\ PosDe(eOut.texto, "\n\n") # 0
               /\ \A k \in 1..PosDe(eOut.texto, "\n\n") : eOut.texto[k] # "\n"

\* depth and path as listar_todos_os_arquivos stamps them on a file
DoCrawler(nivel, caminho) == nivel = Profundidade(caminho)

\* C12: for every depth and folder path the crawler can produce and every
\* body text without bracket tags, extrair_info_contexto applied to the text
\* annotated by extrair_texto_de_imagem returns the annotated depth and the
\* annotated path (0 and "/" being the values of the omitted tags).
C12_ParseInvertsAnnotate ==
    (ePc = "lido" /\ eIn.impl = "ocr" /\ OcrRodou(eIn.img)
        /\ DoCrawler(eIn.nivel, eIn.caminho)) =>
        /\ eOut.info.nivel = eIn.nivel
        /\ eOut.info.caminho = eIn.caminho

----------------------------------------------------------------------------
(* pre_processar_imagem, src/oraculo/ocr.py and src/streamlit_app.py *)

\* An image is [modo, w, px]: its PIL mode, its width and its pixels, a
\* function on (1..Altura) \X (1..w).  A colour pixel is a neutral grey, held
\* as its luminance.
MaxLargura == 2

Janela == 3      \* MedianFilter(size=3); SHARPEN is a 3x3 kernel as well
Altura == Janela
Preto  == 0
Branco == 255
Limiar == 128    \* fn = lambda x: 255 if x > 128 else 0

Posicoes(w) == (1..Altura) \X (1..w)

Clamp(v, lo, hi) == IF v < lo THEN lo ELSE IF v > hi THEN hi ELSE v

Vizinhanca == (-1..1) \X (-1..1)

\* the pixel at offset o of position p, the border being replicated
Vizinho(img, p, o) ==
    img.px[<<Clamp(p[1] + o[1], 1, Altura), Clamp(p[2] + o[2], 1, img.w)>>]

RECURSIVE SomaDe(_, _)
SomaDe(f, S) ==
    IF S = {} THEN 0
    ELSE LET x == CHOOSE y \in S : TRUE IN f[x] + SomaDe(f, S \ {x})

\* img.convert('RGB'), img.convert('L'): the luminance is kept
Converte_Modo(img, modo) == [img EXCEPT !.modo = modo]

\* ImageEnhance.Contrast(img).enhance(2.0): every pixel moves away from the
\* rounded mean luminance by the factor 2, then is clipped
Contraste(img) ==
    LET n     == Cardinality(Posicoes(img.w))
        media == (2 * SomaDe(img.px, Posicoes(img.w)) + n) \div (2 * n)
    IN  [img EXCEPT !.px = [p \in Posicoes(img.w) |->
                               Clamp(media + 2 * (img.px[p] - media), Preto, Branco)]]

\* img.filter(ImageFilter.MedianFilter(size=3))
Mediana(img) ==
    LET meio == (Janela * Janela) \div 2
        med(p) == CHOOSE v \in {Vizinho(img, p, o) : o \in Vizinhanca} :
                     /\ Cardinality({o \in Vizinhanca : Vizinho(img, p, o) < v}) <= meio
                     /\ Cardinality({o \in Vizinhanca : Vizinho(img, p, o) <= v}) > meio
    IN  [img EXCEPT !.px = [p \in Posicoes(img.w) |-> med(p)]]

\* img.filter(ImageFilter.SHARPEN): kernel (-2 ... 32 ... -2) / 16 on the
\* interior pixels, the pixels of the border are copied
Nitidez(img) ==
    LET interior(p) == p[1] > 1 /\ p[1] < Altura /\ p[2] > 1 /\ p[2] < img.w
        viz(p) == [o \in Vizinhanca \ {<<0, 0>>} |-> Vizinho(img, p, o)]
        nit(p) == (32 * img.px[p] - 2 * SomaDe(viz(p), DOMAIN viz(p)) + 8) \div 16
    IN  [img EXCEPT !.px = [p \in Posicoes(img.w) |->
                               IF interior(p) THEN Clamp(nit(p), Preto, Branco)
                               ELSE img.px[p]]]

\* img.convert('L').point(fn, mode='1')
Binariza(img) ==
    [img EXCEPT !.modo = "1",
                !.px = [p \in Posicoes(img.w) |->
                           IF img.px[p] > Limiar THEN Branco ELSE Preto]]

\* ImageEnhance.Contrast blends the image with its mean; Image.blend rejects
\* images of mode "1" with ValueError
Levanta(etapa, img) == etapa = "contraste" /\ img.modo = "1"

AplicaEtapa(etapa, img) ==
    CASE etapa = "alpha"       -> Converte_Modo(img, "RGB")
      [] etapa = "cinza"       -> Converte_Modo(img, "L")
      [] etapa = "contraste"   -> Contraste(img)
      [] etapa = "ruido"       -> Mediana(img)
      [] etapa = "nitidez"     -> Nitidez(img)
      [] etapa = "binarizacao" -> Binariza(img)

OpcoesDe(impl) ==
    IF impl = "ocr"
    THEN {"cinza", "contraste", "ruido", "nitidez", "binarizacao"}
    ELSE {"cinza", "contraste", "ruido", "nitidez"}

\* the order in which the function tests the options it has
OrdemDasEtapas_NitidezAntes(impl) == SelectSeq(<<"cinza", "contraste", "nitidez", "ruido", "binarizacao">>, LAMBDA x : x \in OpcoesDe(impl))
OrdemDasEtapas(impl) == SelectSeq(<<"cinza", "contraste", "ruido", "nitidez", "binarizacao">>, LAMBDA x : x \in OpcoesDe(impl))

\* st = [img, passos, erro]: the image so far, the transforms applied so far
\* and whether one of them raised
RECURSIVE Etapas(_, _, _)
Etapas(ordem, opcoes, st) ==
    IF ordem = <<>> \/ st.erro THEN st
    ELSE IF Head(ordem) \notin opcoes THEN Etapas(Tail(ordem), opcoes, st)
    ELSE IF Levanta(Head(ordem), st.img)
         THEN [st EXCEPT !.erro = TRUE]
         ELSE Etapas(Tail(ordem), opcoes,
                     [st EXCEPT !.img = AplicaEtapa(Head(ordem), st.img),
                                !.passos = Append(st.passos, Head(ordem))])

\* ocr.py lines 15-64 (cfg.usar is TRUE) and streamlit_app.py lines 409-432
\* (cfg.usar is use_preprocessing, cfg.opcoes is preprocessing_options)
PreProcessarImagem(impl, img, cfg) ==
    IF ~cfg.usar THEN [img |-> img, passos |-> <<>>, erro |-> FALSE]
    ELSE LET st0 == IF img.modo = "RGBA"
                    THEN [img |-> AplicaEtapa("alpha", img),
                          passos |-> <<"alpha">>, erro |-> FALSE]
                    ELSE [img |-> img, passos |-> <<>>, erro |-> FALSE]
         IN  Etapas(OrdemDasEtapas(impl), cfg.opcoes, st0)

\* black-and-white pictures of every width up to MaxLargura
ImagensDeEntrada ==
    UNION { [modo : {"RGBA", "L"}, w : {w}, px : [Posicoes(w) -> {Preto, Branco}]] :
            w \in 1..MaxLargura }

InitPre ==
    /\ \E impl \in {"ocr", "app"} :
         eIn \in { e \in [impl : {impl}, img : ImagensDeEntrada,
                          cfg : [usar : BOOLEAN, opcoes : SUBSET OpcoesDe(impl)]] :
                     /\ impl = "ocr" => e.cfg.usar
                     /\ ~e.cfg.usar => e.cfg.opcoes = {} }
    /\ eOut = [op |-> "", texto |-> <<>>, chamadas |-> <<>>]
    /\ ePc = "idle"

\* the first call, on the input image
PreProcessa ==
    /\ ePc = "idle"
    /\ LET r == PreProcessarImagem(eIn.impl, eIn.img, eIn.cfg)
       IN  eOut' = [op |-> "pre", img |-> r.img, passos |-> r.passos,
                    erro |-> r.erro, anterior |-> eIn.img]
    /\ ePc' = "once"
    /\ UNCHANGED eIn

\* a second call with the same configuration, on the result of the first
PreProcessaDeNovo ==
    /\ ePc = "once" /\ ~eOut.erro
    /\ LET r == PreProcessarImagem(eIn.impl, eOut.img, eIn.cfg)
       IN  eOut' = [op |-> "pre", img |-> r.img, passos |-> r.passos,
                    erro |-> r.erro, anterior |-> eOut.img]
    /\ ePc' = "twice"
    /\ UNCHANGED eIn

PreInit == InitPre /\ AppParado /\ CrawlParado /\ DownloadParado /\ BaixarParado /\ FuncaoParada

NextPre ==
    \/ PreProcessa /\ UNCHANGED <<avars, cvars, dvars, bvars, fvars>>
    \/ PreProcessaDeNovo /\ UNCHANGED <<avars, cvars, dvars, bvars, fvars>>

SpecPre == PreInit /\ [][NextPre]_vars

\* C13: whatever subset of options is enabled, a call of pre_processar_imagem
\* that returns has applied exactly the enabled transforms, in the order
\* alpha-strip, grayscale, contrast, denoise, sharpen, binarize (the
\* alpha-strip being the first step when there is an alpha channel): denoise
\* never after sharpen, nothing after binarize.
C13_FixedOrder ==
    (ePc \in {"once", "twice"} /\ ~eOut.erro) =>
        LET canonica == <<"cinza", "contraste", "ruido", "nitidez", "binarizacao">>
            feitas   == SelectSeq(eOut.passos, LAMBDA x : x # "alpha")
        IN  /\ feitas = SelectSeq(canonica, LAMBDA x : x \in eIn.cfg.opcoes)
            /\ \A k \in 1..Len(eOut.passos) :
                   eOut.passos[k] = "alpha" =>
                       k = 1 /\ eOut.anterior.modo = "RGBA"
            /\ (eOut.anterior.modo = "RGBA" /\ eIn.cfg.usar)
                   => (eOut.passos # <<>> /\ eOut.passos[1] = "alpha")

C13_Witness ==
    /\ ePc = "once"
    /\ eOut.passos = <<"alpha", "cinza", "contraste", "ruido", "nitidez", "binarizacao">>

\* C19: for every configuration with binarization enabled, a second call of
\* pre_processar_imagem with the same configuration on the already binarized
\* result of the first changes no pixel.
C19_SecondPassNoOp ==
    (ePc = "twice" /\ eIn.impl = "ocr" /\ "binarizacao" \in eIn.cfg.opcoes
        /\ ~eOut.erro) =>
        eOut.img.px = eOut.anterior.px

----------------------------------------------------------------------------
(* The application, src/streamlit_app.py: the status checks of the sidebar, *)
(* main and its own listar_todos_os_arquivos                                *)

\* the folder a path of the application names ("/", "/A", "/A/B")
ResolveApp(t, caminho_pasta) ==
    Resolve(t, IF caminho_pasta = <<SEP>> THEN caminho_pasta ELSE Tail(caminho_pasta))

\* lines 355, 362: nova_pasta.count('/'), caminho_pasta.count('/')
ContaBarras(caminho_pasta) ==
    Cardinality({k \in 1..Len(caminho_pasta) : caminho_pasta[k] = SEP})

\* lines 372-374: st.warning with the status, st.code(response.text) unless
\* the status is 404
AvisosDoApp(caminho_pasta, status) ==
    <<Aviso(caminho_pasta, status)>>
    \o (IF status # 404 THEN <<[pasta |-> caminho_pasta, corpo |-> status]>>
        ELSE <<>>)

\* line 369: min(0.1 + 0.8 * (i / len(itens)), 0.9)
ProgressoDoItem(i, n) ==
    FrMin(FrSoma(Fr(1, 10), FrMul(Fr(8, 10), Fr(i, n))), Fr(9, 10))

RECURSIVE ListarTodosApp(_, _, _)
RECURSIVE ProcessaItensApp(_, _, _, _, _, _)

\* lines 347-370: the loop over the items of the response
ProcessaItensApp(a, caminho_pasta, barra, itens, j, acc) ==
    IF j > Len(itens) THEN acc
    ELSE IF LimiteAtingido(a.limite, acc.arquivos) THEN acc
    ELSE LET item == itens[j]
             acc1 ==
               IF a.t.folder[item]
               THEN LET sub == ListarTodosApp(a, NovaPasta(caminho_pasta, Nomes[item]),
                                              FALSE)
                    IN  [arquivos |-> acc.arquivos \o sub.arquivos,
                         reqs     |-> acc.reqs \o sub.reqs,
                         prog     |-> acc.prog \o sub.prog,
                         avisos   |-> acc.avisos \o sub.avisos]
               ELSE [acc EXCEPT !.arquivos =
                        Append(@, DescritorSemCategoria(item, ContaBarras(caminho_pasta),
                                            caminho_pasta))]
             acc2 == IF barra
                     THEN [acc1 EXCEPT !.prog =
                              Append(@, Progresso(ProgressoDoItem(j - 1, Len(itens)),
                                                  ContaBarras(caminho_pasta) - 1))]
                     ELSE acc1
         IN  ProcessaItensApp(a, caminho_pasta, barra, itens, j + 1, acc2)

\* lines 329-384: one invocation; barra tells whether progress_bar was given.
\* The response holds the first page of the folder's children and the
\* function reads nothing else of it.
ListarTodosApp(a, caminho_pasta, barra) ==
    LET pasta == ResolveApp(a.t, caminho_pasta)
        nivel == ContaBarras(caminho_pasta) - 1
        vazio == [arquivos |-> <<>>, reqs |-> <<Requisicao(caminho_pasta, 1)>>,
                  prog |-> <<>>, avisos |-> <<>>]
        r1 == IF pasta = NaoEncontrada \/ pasta = a.falha.pasta
              THEN [vazio EXCEPT !.avisos =
                       AvisosDoApp(caminho_pasta,
                                   IF pasta = NaoEncontrada THEN 404
                                   ELSE a.falha.status)]
              ELSE ProcessaItensApp(a, caminho_pasta, barra,
                       Pagina(Filhos(a.t, pasta), a.ps, 1), 1,
                       IF barra
                       THEN [vazio EXCEPT !.prog = <<Progresso(Fr(1, 10), nivel)>>]
                       ELSE vazio)
    IN  IF barra /\ caminho_pasta = <<SEP>>
        THEN [r1 EXCEPT !.prog = Append(@, Progresso(Fr(1, 1), nivel))]
        ELSE r1

\* what the script shows (st.success, st.error) and the requests it sends
Mostra(tipo, texto) == [tipo |-> tipo, texto |-> texto]

InitApp ==
    /\ aAmb \in [tesseract : BOOLEAN, token : BOOLEAN, bibliotecas : BOOLEAN]
    /\ aPc = "sidebar"
    /\ aUI = <<>>
    /\ cTree \in Trees
    /\ cPageSize \in 1..MaxPageSize
    /\ cLimite = 0
    /\ cFiltro = <<>>
    /\ cFalha \in Falhas(cTree)
    /\ cOut = [arquivos |-> <<>>, reqs |-> <<>>, prog |-> <<>>, avisos |-> <<>>]
    /\ cPc = "idle"

\* lines 151-157: the status check of the OCR engine; the script goes on
\* whatever the outcome
StatusDoSistema ==
    /\ aPc = "sidebar"
    /\ aUI' = Append(aUI, IF aAmb.tesseract
                          THEN Mostra("success", "Tesseract OCR instalado")
                          ELSE Mostra("error", "Tesseract OCR não encontrado"))
    /\ aPc' = "main"
    /\ UNCHANGED <<aAmb, cvars>>

\* lines 1279-1282 and 188-220: main obtains the token
ObtemToken ==
    /\ aPc = "main"
    /\ aUI' = aUI \o <<Mostra("request", "token")>>
                  \o (IF aAmb.token THEN <<>>
                      ELSE <<Mostra("error", "Erro ao gerar token de acesso"),
                             Mostra("error", "Não foi possível obter token")>>)
    /\ aPc' = IF aAmb.token THEN "token" ELSE "fim"
    /\ UNCHANGED <<aAmb, cvars>>

\* lines 1285-1288 and 222-237: main lists the libraries
ListarBibliotecas ==
    /\ aPc = "token"
    /\ aUI' = aUI \o <<Mostra("request", "drives")>>
                  \o (IF aAmb.bibliotecas THEN <<>>
                      ELSE <<Mostra("error", "Não foi possível listar as bibliotecas")>>)
    /\ aPc' = IF aAmb.bibliotecas THEN "pronto" ELSE "fim"
    /\ UNCHANGED <<aAmb, cvars>>

\* lines 1302-1311: the user presses "Buscar Documentos"
BuscarDocumentos ==
    /\ aPc = "pronto"
    /\ cOut' = ListarTodosApp([t |-> cTree, ps |-> cPageSize, limite |-> cLimite,
                               falha |-> cFalha], <<SEP>>, TRUE)
    /\ cPc' = "done"
    /\ aUI' = Append(aUI, Mostra("write", "Total de documentos"))
    /\ aPc' = "exibido"
    /\ UNCHANGED <<aAmb, cTree, cPageSize, cLimite, cFiltro, cFalha>>

AppInit == InitApp /\ DownloadParado /\ ExtracaoParada /\ BaixarParado /\ FuncaoParada

NextApp ==
    \/ StatusDoSistema /\ UNCHANGED <<dvars, evars, bvars, fvars>>
    \/ ObtemToken /\ UNCHANGED <<dvars, evars, bvars, fvars>>
    \/ ListarBibliotecas /\ UNCHANGED <<dvars, evars, bvars, fvars>>
    \/ BuscarDocumentos /\ UNCHANGED <<dvars, evars, bvars, fvars>>

SpecApp == AppInit /\ [][NextApp]_vars

Mostrou(m) == \E k \in 1..Len(aUI) : aUI[k] = m

\* C16: when Tesseract cannot be found the run stops at startup: the
\* unavailability is shown before any crawl and the run sends no listing
\* request at all
C16_StopsWithoutEngine ==
    (~aAmb.tesseract /\ aPc # "sidebar") =>
        /\ Mostrou(Mostra("error", "Tesseract OCR não encontrado"))
        /\ ~Mostrou(Mostra("request", "drives"))
        /\ cOut.reqs = <<>>

\* the path of folder f as the application requests it
CaminhoDaPastaApp(t, f) ==
    IF f = RAIZ THEN <<SEP>>
    ELSE <<SEP>> \o CaminhoEsperado(Append(Ancestrais(t, f), Nomes[f]))

PosicaoDaRequisicao(r) ==
    IF \E k \in 1..Len(cOut.reqs) : cOut.reqs[k] = r
    THEN CHOOSE k \in 1..Len(cOut.reqs) : cOut.reqs[k] = r
    ELSE 0

\* every folder that was listed had all its pages requested, the files of
\* all those pages are in the result, and no request for a folder outside it
\* falls between its first and its last page
PaginacaoCompleta(CaminhoDe(_, _)) ==
    \A f \in {RAIZ} \cup {i \in Itens(cTree) : cTree.folder[i]} :
        LET c      == CaminhoDe(cTree, f)
            filhos == Filhos(cTree, f)
            n      == NumPaginas(filhos, cPageSize)
            pos(k) == PosicaoDaRequisicao(Requisicao(c, k))
        IN  pos(1) # 0 =>
              /\ \A k \in 1..n : pos(k) # 0
              /\ \A j \in 1..Len(filhos) :
                     ~cTree.folder[filhos[j]] => filhos[j] \in IdsDe(cOut.arquivos)
              /\ \A m \in 1..Len(cOut.reqs) :
                     (pos(1) < m /\ m < pos(n)) =>
                         \E g \in {f} \cup {i \in Itens(cTree) : Abaixo(cTree, f, i)} :
                             cOut.reqs[m].pasta = CaminhoDe(cTree, g)

\* C20: with no limit and no failing request, listar_todos_os_arquivos does
\* not leave a folder while its last response carries a continuation link:
\* it requests the pages one after the other until one has none, and the
\* items of all the pages are in the folder's result before the parent goes on
C20_FollowsContinuation ==
    (aPc = "exibido" /\ cLimite = 0 /\ cFalha = SemFalha) =>
        PaginacaoCompleta(CaminhoDaPastaApp)


----------------------------------------------------------------------------
(* listar_pastas and listar_arquivos, src/oraculo/scraper.py 39-142: one
   request for the children of one folder *)

MaxListagens == 2   \* calls of the two functions in one behaviour

\* lines 56-60, 106-110: a leading "/" is cut off, the root "/" is kept
CaminhoDaListagem(folder_path) ==
    IF folder_path # <<SEP>> /\ Head(folder_path) = SEP THEN Tail(folder_path)
    ELSE folder_path

\* lines 71, 122: nivel = folder_path.count('/') + 1
NivelDaListagem(folder_path) == ContaBarras(folder_path) + 1

\* lines 62-80, 112-142.  fn is "listar_pastas" or "listar_arquivos"; only
\* the first page of the answer is read; a request that fails gives [].
ListarItens(fn, t, ps, folder_path, rede) ==
    LET caminho == CaminhoDaListagem(folder_path)
        pasta   == Resolve(t, caminho)
        extensoes_validas == {".pdf", ".png", ".jpg", ".jpeg", ".gif", ".bmp", ".txt"}
        Fica(i) == IF fn = "listar_pastas" THEN t.folder[i]
                   ELSE ~t.folder[i] /\ ExtDe(Nomes[i]) \in extensoes_validas
        Item(i) == [id |-> i, nome |-> Nomes[i],
                    nivel |-> NivelDaListagem(caminho), caminho |-> caminho,
                    categoria |-> IF fn = "listar_arquivos"
                                     /\ "comunicado" \in PalavrasDe(Nomes[i])
                                  THEN "Comunicado" ELSE SemCategoria]
    IN  IF rede # "ok" \/ pasta = NaoEncontrada THEN <<>>
        ELSE LET items == SelectSeq(Pagina(Filhos(t, pasta), ps, 1), Fica)
             IN  [k \in 1..Len(items) |-> Item(items[k])]

InitListar ==
    /\ fIn \in [t : Trees, ps : 1..MaxPageSize]
    /\ fOut = <<>>
    /\ fPc = "idle"

\* one call of listar_pastas or listar_arquivos, for the root or for a folder
\* of the drive, its path written with or without the leading "/"
Listar ==
    /\ Len(fOut) < MaxListagens
    /\ \E fn \in {"listar_pastas", "listar_arquivos"},
          f \in {RAIZ} \cup {i \in Itens(fIn.t) : fIn.t.folder[i]},
          barra \in BOOLEAN, rede \in {"ok", "erro"} :
        LET c           == CaminhoDaPasta(fIn.t, f)
            folder_path == IF barra /\ f # RAIZ THEN <<SEP>> \o c ELSE c
        IN  fOut' = Append(fOut, [fn |-> fn, folder_path |-> folder_path,
                                  itens |-> ListarItens(fn, fIn.t, fIn.ps,
                                                        folder_path, rede)])
    /\ fPc' = "done"
    /\ UNCHANGED fIn

ListarInit == InitListar /\ AppParado /\ CrawlParado /\ DownloadParado /\ ExtracaoParada /\ BaixarParado

NextListar == Listar /\ UNCHANGED <<avars, cvars, dvars, evars, bvars>>

SpecListar == ListarInit /\ [][NextListar]_vars

\* the items the calls made so far have returned
ItensListados == UNION { {fOut[k].itens[j] : j \in 1..Len(fOut[k].itens)} : k \in 1..Len(fOut) }

\* number of folders between the root and item i
Aninhamento(i) == Len(Ancestrais(fIn.t, i))

\* C29: the level stamped on the listed items follows the nesting: an item of
\* the root folder has a strictly smaller level than an item of any
\* sub-folder, and two items at the same nesting depth have the same level
C29_LevelFollowsNesting ==
    \A x, y \in ItensListados :
        /\ (Aninhamento(x.id) = 0 /\ Aninhamento(y.id) > 0) => x.nivel < y.nivel
        /\ Aninhamento(x.id) = Aninhamento(y.id) => x.nivel = y.nivel


----------------------------------------------------------------------------
(* EmbeddingsManager.find_most_similar, src/oraculo/embeddings.py 136-183.
   Positions in a list count from 1 here, from 0 in the code. *)

MaxCandidatos == 3  \* longest candidate_embeddings
MaxTopK == 2        \* largest top_k

None == <<"None">>

\* an embedding: a list of floats, possibly empty or all zero
Embeddings == { <<>>, <<0, 0>>, <<1, 0>>, <<0, 1>>, <<1, 1>> }

\* lines 106-134: the cosine of the two vectors cut to 0..1, kept here as the
\* fraction cos^2, which orders non-negative cosines as the cosines themselves
similarity(embedding1, embedding2) ==
    LET dot   == embedding1[1] * embedding2[1] + embedding1[2] * embedding2[2]
        norm1 == embedding1[1] * embedding1[1] + embedding1[2] * embedding1[2]
        norm2 == embedding2[1] * embedding2[1] + embedding2[2] * embedding2[2]
    IN  IF embedding1 = <<>> \/ embedding2 = <<>> THEN Fr(0, 1)
        ELSE IF norm1 = 0 \/ norm2 = 0 THEN Fr(0, 1)
        ELSE IF dot < 0 THEN Fr(0, 1)
        ELSE Fr(dot * dot, norm1 * norm2)

\* np.argsort: the positions of sims in ascending order of value (equal
\* values in ascending position, as the sort does on short arrays)
ArgSort(sims) ==
    LET Antes(j, i) == FrMenor(sims[j], sims[i])
                       \/ (~FrMenor(sims[i], sims[j]) /\ j < i)
        Posto(i)    == 1 + Cardinality({j \in 1..Len(sims) : Antes(j, i)})
    IN  [r \in 1..Len(sims) |-> CHOOSE i \in 1..Len(sims) : Posto(i) = r]

\* lines 156-183.  texts = <<>> stands for texts=None.
find_most_similar(query_embedding, candidate_embeddings, texts, top_k) ==
    IF query_embedding = <<>> \/ candidate_embeddings = <<>> THEN <<>>
    ELSE LET presentes    == SelectSeq(candidate_embeddings, LAMBDA c : c # None)
             similarities == [k \in 1..Len(presentes) |->
                                 similarity(query_embedding, presentes[k])]
             ordenados    == ArgSort(similarities)
             invertidos   == [r \in 1..Len(ordenados) |->
                                 ordenados[Len(ordenados) + 1 - r]]
             top_indices  == SubSeq(invertidos, 1,
                                    IF top_k < Len(invertidos) THEN top_k
                                    ELSE Len(invertidos))
         IN  IF similarities = <<>> THEN <<>>
             ELSE IF texts # <<>>
             THEN [r \in 1..Len(top_indices) |->
                      [index      |-> top_indices[r],
                       text       |-> texts[top_indices[r]],
                       similarity |-> similarities[top_indices[r]]]]
             ELSE top_indices

\* texts[k] is the text candidate k was embedded from
TextosDe(candidate_embeddings) ==
    [k \in 1..Len(candidate_embeddings) |-> <<"texto ", NumStr(k)>>]

InitSimilar ==
    /\ \E c \in SeqsAte(Embeddings \cup {None}, MaxCandidatos) :
          fIn \in [query : Embeddings, candidatos : {c},
                   texts : {<<>>, TextosDe(c)}, top_k : 1..MaxTopK]
    /\ fOut = <<>>
    /\ fPc = "idle"

FindMostSimilar ==
    /\ fPc = "idle"
    /\ fOut' = find_most_similar(fIn.query, fIn.candidatos, fIn.texts, fIn.top_k)
    /\ fPc' = "done"
    /\ UNCHANGED fIn

SimilarInit == InitSimilar /\ AppParado /\ CrawlParado /\ DownloadParado /\ ExtracaoParada /\ BaixarParado

NextSimilar == FindMostSimilar /\ UNCHANGED <<avars, cvars, dvars, evars, bvars>>

SpecSimilar == SimilarInit /\ [][NextSimilar]_vars

\* C30: every returned entry names a candidate that has an embedding, with
\* that candidate's text and the similarity it was scored with; the entries
\* are in non-increasing order of similarity and there are at most top_k
C30_EntriesMatchCandidates ==
    (fPc = "done" /\ fIn.texts # <<>>) =>
        /\ Len(fOut) <= fIn.top_k
        /\ \A r \in 1..(Len(fOut) - 1) :
               ~FrMenor(fOut[r].similarity, fOut[r + 1].similarity)
        /\ \A r \in 1..Len(fOut) :
               /\ fIn.candidatos[fOut[r].index] # None
               /\ fOut[r].similarity
                      = similarity(fIn.query, fIn.candidatos[fOut[r].index])
               /\ fOut[r].text = fIn.texts[fOut[r].index]

====
